---- MODULE Spec2Model ----
(***************************************************************************)
(* A model of gitinfo's two mechanisms: the Link-header pagination parser  *)
(* (gitdata.pagination) and the field projector (gitdata.repofields), and  *)
(* of the fetch loop (gitdata.reposget / membersget) that drives them.     *)
(*                                                                         *)
(* Python values are modelled as records [t, s, d]: t is the Python type,  *)
(* s the text of a scalar, d the items of a dict (a sequence of <<key,     *)
(* value>> pairs in insertion order).  Python strings are TLA+ strings,    *)
(* cut and joined character by character as the code does.                 *)
(***************************************************************************)
EXTENDS Integers, Sequences, FiniteSets, TLC

VARIABLES
    link_header,      \* pagination(): the argument of the pending/last call
    pagelinks,        \* pagination(): the outcome of the call
    repo_json,        \* repofields(): the source object of the last call
    fields,           \* repofields(): the field list of the session
    records,          \* the Records projected so far, in order
    unknownfieldname, \* _settings.unknownfieldname ("<unset>" until assigned)
    raised,           \* the exception that ended the operation, "" if none
    call,             \* reposget/membersget: the function and its arguments
    server,           \* the API: the pages it serves for the call, in order
    endpoint,         \* reposget/membersget: the URL to fetch next
    response,         \* reposget/membersget: the last response received
    api_calls,        \* the endpoints requested so far, in order
    http_auth,        \* the auth argument of each requests.get(), in order
    inifile,          \* github_users.ini: its sections, or that it is missing
    settings,         \* _settings: username, accesstoken, session totals
    session,          \* the projections made so far: object and field list
    cli,              \* the command line: its options, console and output file
    pc                \* position of the running operation

vars == <<link_header, pagelinks, repo_json, fields, records,
          unknownfieldname, raised, call, server, endpoint, response,
          api_calls, http_auth, inifile, settings, session, cli, pc>>

(***************************************************************************)
(* Bounds of the model.                                                    *)
(***************************************************************************)
MaxEntries == 2     \* entries in a generated Link header
MaxFields == 2      \* selectors in a generated field list
MaxPages == 2       \* pages the modelled API serves for one fetch
MaxCalls == 2       \* projections made in one session
MaxRequests == 2    \* calls of the API after auth_config()

(***************************************************************************)
(* Python values.                                                          *)
(***************************************************************************)
VStr(s) == [t |-> "str", s |-> s, d |-> <<>>]
VInt(s) == [t |-> "int", s |-> s, d |-> <<>>]
VBool(b) == [t |-> "bool", s |-> IF b THEN "True" ELSE "False", d |-> <<>>]
VNone == [t |-> "NoneType", s |-> "", d |-> <<>>]
VDict(items) == [t |-> "dict", s |-> "", d |-> items]

\* Python truthiness: `if x`, `not x`.
Truthy(v) ==
    CASE v.t = "NoneType" -> FALSE
      [] v.t = "bool" -> v.s = "True"
      [] v.t = "int" -> v.s # "0"
      [] v.t = "str" -> v.s # ""
      [] v.t = "dict" -> v.d # <<>>
      [] OTHER -> TRUE

(***************************************************************************)
(* Python dicts: items in insertion order, keys unique.                    *)
(***************************************************************************)
Keys(items) == [i \in 1..Len(items) |-> items[i][1]]

HasKey(items, k) == \E i \in 1..Len(items) : items[i][1] = k

\* d[k] for a key that is present.
Get(items, k) == items[CHOOSE i \in 1..Len(items) : items[i][1] = k][2]

\* d[k] = v: replaces the value in place, or appends a new item.
Put(items, k, v) ==
    IF HasKey(items, k)
    THEN [i \in 1..Len(items) |->
             IF items[i][1] = k THEN <<k, v>> ELSE items[i]]
    ELSE Append(items, <<k, v>>)

(***************************************************************************)
(* Python str methods, on TLA+ strings.                                    *)
(***************************************************************************)
Char(s, i) == SubSeq(s, i, i)

\* s[1:-1]
Inner(s) == SubSeq(s, 2, Len(s) - 1)

IsSpace(c) == c \in {" ", "\t", "\n", "\r"}

RECURSIVE LStrip(_)
LStrip(s) ==
    IF Len(s) > 0 /\ IsSpace(Char(s, 1))
    THEN LStrip(SubSeq(s, 2, Len(s)))
    ELSE s

RECURSIVE RStrip(_)
RStrip(s) ==
    IF Len(s) > 0 /\ IsSpace(Char(s, Len(s)))
    THEN RStrip(SubSeq(s, 1, Len(s) - 1))
    ELSE s

\* s.strip()
Strip(s) == RStrip(LStrip(s))

\* The position of the first sep at or after i, Len(s) + 1 if there is none.
RECURSIVE FindFrom(_, _, _)
FindFrom(s, sep, i) ==
    IF i > Len(s) THEN Len(s) + 1
    ELSE IF Char(s, i) = sep THEN i
    ELSE FindFrom(s, sep, i + 1)

\* Split as str.split() without a separator behaves on '': an empty list.
RECURSIVE Split_EmptyList(_, _)
Split_EmptyList(s, sep) ==
    LET j == FindFrom(s, sep, 1) IN
    IF s = "" THEN <<>>
    ELSE IF j > Len(s) THEN <<s>>
    ELSE <<SubSeq(s, 1, j - 1)>>
             \o Split_EmptyList(SubSeq(s, j + 1, Len(s)), sep)

\* s.split(sep) for a one-character sep: never an empty list.
RECURSIVE Split(_, _)
Split(s, sep) ==
    LET j == FindFrom(s, sep, 1) IN
    IF j > Len(s) THEN <<s>>
    ELSE <<SubSeq(s, 1, j - 1)>> \o Split(SubSeq(s, j + 1, Len(s)), sep)

\* sep in s
Contains(s, sep) == FindFrom(s, sep, 1) <= Len(s)

\* s.endswith(suffix)
EndsWith(s, suffix) ==
    /\ Len(s) >= Len(suffix)
    /\ SubSeq(s, Len(s) - Len(suffix) + 1, Len(s)) = suffix

\* seq[-1]; IndexError on an empty list is the caller's to check.
Last(seq) == seq[Len(seq)]

(***************************************************************************)
(* pagination(): parse the 'link' HTTP header.                             *)
(***************************************************************************)
\* What a call produced: the exception it raised ("" if none) and the
\* dictionary it returned.
Returned(items) == [raised |-> "", ret |-> items]
Raised(exc) == [raised |-> exc, ret |-> <<>>]

\* A response object as pagination() sees it: its headers.
Response(headers) == [t |-> "Response", s |-> "", d |-> headers]

\* retval as initialized: page 0 and URL None for each of the four types.
InitialLinks ==
    << <<"firstpage", VInt("0")>>, <<"firstURL", VNone>>,
       <<"prevpage", VInt("0")>>, <<"prevURL", VNone>>,
       <<"nextpage", VInt("0")>>, <<"nextURL", VNone>>,
       <<"lastpage", VInt("0")>>, <<"lastURL", VNone>> >>

\* LinkTypeOf without the [1:-1] that drops the quotes.
LinkTypeOf_KeepQuotes(link) ==
    Strip(Last(Split(Last(Split(link, ";")), "=")))

\* link.split(';')[-1].split('=')[-1].strip()[1:-1]
LinkTypeOf(link) == Inner(Strip(Last(Split(Last(Split(link, ";")), "="))))

\* UrlOf without the [1:-1] that drops the angle brackets.
UrlOf_KeepBrackets(link) == Strip(Split(link, ";")[1])

\* link.split(';')[0].strip()[1:-1]
UrlOf(link) == Inner(Strip(Split(link, ";")[1]))

\* PageOf without the split on '=': the whole query string.
PageOf_WholeQuery(url) == Strip(Last(Split(url, "?")))

\* PageOf as a lookup of the query parameter named page, wherever it stands.
PageOf_PageParameter(url) ==
    LET params == Split(Last(Split(url, "?")), "&")
        named == SelectSeq(params, LAMBDA p : Len(p) >= 5
                                              /\ SubSeq(p, 1, 5) = "page=")
    IN IF named = <<>> THEN "" ELSE Strip(SubSeq(named[1], 6, Len(named[1])))

\* url.split('?')[-1].split('=')[-1].strip()
PageOf(url) == Strip(Last(Split(Last(Split(url, "?")), "=")))

\* One pass of `for link in links`: both entries of the link's type are set.
\* An index into an empty list of segments is Python's IndexError.
StoreLink(retval, link) ==
    IF Split(link, ";") = <<>> \/ Split(Last(Split(link, ";")), "=") = <<>>
    THEN Raised("IndexError")
    ELSE Returned(Put(Put(retval, LinkTypeOf(link) \o "page",
                          VStr(PageOf(UrlOf(link)))),
                      LinkTypeOf(link) \o "URL", VStr(UrlOf(link))))

RECURSIVE StoreLinks(_, _)
StoreLinks(retval, links) ==
    IF links = <<>> THEN Returned(retval)
    ELSE LET one == StoreLink(retval, Head(links)) IN
         IF one.raised # "" THEN one
         ELSE StoreLinks(one.ret, Tail(links))

\* pagination() without the `except KeyError` around headers['Link'].
pagination_NoExcept(header) ==
    IF header.t = "str"
    THEN StoreLinks(InitialLinks, Split(header.s, ","))
    ELSE IF header.t # "Response"
    THEN Raised("AttributeError")
    ELSE IF ~HasKey(header.d, "Link")
    THEN Raised("KeyError")
    ELSE StoreLinks(InitialLinks, Split(Get(header.d, "Link").s, ","))

pagination(header) ==
    IF header.t = "str"
    THEN StoreLinks(InitialLinks, Split(header.s, ","))
    ELSE IF header.t # "Response"
    THEN Raised("AttributeError")   \* no attribute 'headers'
    ELSE IF ~HasKey(header.d, "Link")
    THEN Returned(InitialLinks)     \* KeyError caught: nothing to parse
    ELSE StoreLinks(InitialLinks, Split(Get(header.d, "Link").s, ","))

(***************************************************************************)
(* The Link headers the model feeds to pagination().                       *)
(***************************************************************************)
RelTypes == {"first", "prev", "next", "last"}

PageNumbers == {"2", "5"}

\* The URLs of one header differ in their page number only.  A shape is the
\* text before and after the page number.  The first shape gives the URLs
\* GitHub writes, those of the specification's example; the others are legal
\* in a Link header but carry one of the parser's separators, or have page
\* before another query parameter.
GitHubShape == <<"https://api.github.com/organizations/123/repos?page=", "">>

URLShapes ==
    { GitHubShape,
      <<"h/teams/7/members?page=", "">>,
      <<"h/r?q=a,b&page=", "">>,
      <<"h/r;v?page=", "">>,
      <<"h/r?page=", "&per_page=9">> }

URL(shape, page) == shape[1] \o page \o shape[2]

\* What may be wrong with the entries of a header.
Forms == {"ok", "nosemicolon", "noquotes", "nobrackets", "empty"}

\* One entry: '<url>; rel="type"' when well formed.
Entry(url, type, form) ==
    CASE form = "ok" -> "<" \o url \o ">; rel=\"" \o type \o "\""
      [] form = "nosemicolon" -> "<" \o url \o "> rel=\"" \o type \o "\""
      [] form = "noquotes" -> "<" \o url \o ">; rel=" \o type
      [] form = "nobrackets" -> url \o "; rel=\"" \o type \o "\""
      [] form = "empty" -> ""

\* The entries of a header, as the pairs <<page, type>> they are made from.
EntryLists ==
    UNION { [1..n -> PageNumbers \X RelTypes] : n \in 1..MaxEntries }

\* A rel type that is none of the four pagination() initializes.
OtherRelType == "foo"

\* seq with x put in front of its element at position k.
InsertAt(seq, k, x) ==
    SubSeq(seq, 1, k - 1) \o <<x>> \o SubSeq(seq, k, Len(seq))

\* Entry lists with one entry of the other rel type, at any position.
OtherEntryLists ==
    UNION { { InsertAt(e, k, <<p, OtherRelType>>) :
                  k \in 1..(Len(e) + 1), p \in PageNumbers } :
              e \in { l \in EntryLists \cup {<<>>} : Len(l) < MaxEntries } }

RECURSIVE Join(_, _)
Join(strs, sep) ==
    IF strs = <<>> THEN ""
    ELSE IF Len(strs) = 1 THEN strs[1]
    ELSE strs[1] \o sep \o Join(Tail(strs), sep)

\* The header text of a list of entries, all written in one form.
Header(shape, entries, form) ==
    Join([i \in 1..Len(entries) |->
             Entry(URL(shape, entries[i][1]), entries[i][2], form)], ", ")

\* An argument of pagination(): what it is (a header string, a response
\* object with or without a Link header, None), and for a header the shape,
\* entries and form it was written from.
LinkInput(kind, shape, entries, form) ==
    [kind |-> kind, shape |-> shape, entries |-> entries, form |-> form,
     arg |-> CASE kind = "str" -> VStr(Header(shape, entries, form))
               [] kind = "response" ->
                      Response(<< <<"Link",
                                    VStr(Header(shape, entries, form))>> >>)
               [] kind = "nolink" -> Response(<<>>)
               [] kind = "none" -> VNone]

NoInput == LinkInput("none", GitHubShape, <<>>, "ok")

LinkInputs ==
    { LinkInput("str", u, e, f) :
          u \in URLShapes, e \in EntryLists, f \in Forms }
    \cup { LinkInput("response", u, e, "ok") :
               u \in URLShapes, e \in EntryLists }
    \cup { LinkInput("str", GitHubShape, e, "ok") : e \in OtherEntryLists }
    \cup { LinkInput("str", GitHubShape, <<>>, "ok"),
           LinkInput("nolink", GitHubShape, <<>>, "ok"),
           NoInput }

NotCalled == Raised("<not called>")

(***************************************************************************)
(* repofields(): get the fields/values for a repo.                         *)
(***************************************************************************)
UpperCase == "ABCDEFGHIJKLMNOPQRSTUVWXYZ"
LowerCase == "abcdefghijklmnopqrstuvwxyz"

LowerChar(c) ==
    IF \E i \in 1..Len(UpperCase) : Char(UpperCase, i) = c
    THEN Char(LowerCase, CHOOSE i \in 1..Len(UpperCase) : Char(UpperCase, i) = c)
    ELSE c

\* s.lower()
RECURSIVE Lower(_)
Lower(s) ==
    IF s = "" THEN ""
    ELSE LowerChar(Char(s, 1)) \o Lower(SubSeq(s, 2, Len(s)))

\* s.replace(old, new) for a one-character old.
RECURSIVE Replace(_, _, _)
Replace(s, old, new) ==
    IF s = "" THEN ""
    ELSE (IF Char(s, 1) = old THEN new ELSE Char(s, 1))
             \o Replace(SubSeq(s, 2, Len(s)), old, new)

\* What a subscript or a projection produced: the exception it raised ("" if
\* none) and its value.
Value(v) == [raised |-> "", val |-> v]
Throws(exc) == [raised |-> exc, val |-> VNone]

\* v[k] for a string k: a dict gives its value or KeyError; None, numbers,
\* strings and lists give TypeError.
Subscript(v, k) ==
    IF v.t = "dict"
    THEN IF HasKey(v.d, k) THEN Value(Get(v.d, k)) ELSE Throws("KeyError")
    ELSE Throws("TypeError")

\* What repofields() has done so far: the exception it raised, the Record it
\* is building, and _settings.unknownfieldname.
Projection(exc, values, unknown) ==
    [raised |-> exc, ret |-> values, unknown |-> unknown]

\* WithoutUrls that filters the dictionaries inside the dictionary too.
RECURSIVE WithoutUrls_Deep(_)
WithoutUrls_Deep(items) ==
    IF items = <<>> THEN <<>>
    ELSE IF EndsWith(Head(items)[1], "url") THEN WithoutUrls_Deep(Tail(items))
    ELSE IF Head(items)[2].t = "dict"
    THEN << <<Head(items)[1], VDict(WithoutUrls_Deep(Head(items)[2].d))>> >>
             \o WithoutUrls_Deep(Tail(items))
    ELSE <<Head(items)>> \o WithoutUrls_Deep(Tail(items))

\* The embedded dictionary without its *url keys.
RECURSIVE WithoutUrls(_)
WithoutUrls(items) ==
    IF items = <<>> THEN <<>>
    ELSE IF EndsWith(Head(items)[1], "url") THEN WithoutUrls(Tail(items))
    ELSE <<Head(items)>> \o WithoutUrls(Tail(items))

\* CopyField that strips the *url keys of an embedded dictionary in every
\* mode.
CopyField_StripsAlways(mode, values, item) ==
    IF \/ mode = "*"
       \/ (mode = "urls" /\ EndsWith(item[1], "url"))
       \/ (mode = "nourls" /\ ~EndsWith(item[1], "url"))
    THEN IF item[2].t = "dict"
         THEN Put(values, item[1], VDict(WithoutUrls(item[2].d)))
         ELSE Put(values, item[1], item[2])
    ELSE values

\* fields[0] in ['*', 'urls', 'nourls']: one pass of `for fldname in
\* repo_json`.
CopyField(mode, values, item) ==
    IF \/ mode = "*"
       \/ (mode = "urls" /\ EndsWith(item[1], "url"))
       \/ (mode = "nourls" /\ ~EndsWith(item[1], "url"))
    THEN IF item[2].t = "dict" /\ mode = "nourls"
         THEN Put(values, item[1], VDict(WithoutUrls(item[2].d)))
         ELSE Put(values, item[1], item[2])
    ELSE values

RECURSIVE CopyFields(_, _, _)
CopyFields(mode, values, items) ==
    IF items = <<>> THEN values
    ELSE CopyFields(mode, CopyField(mode, values, Head(items)), Tail(items))

\* DottedField with `except TypeError` alone, as gitinfo.repofields has it.
DottedField_TypeErrorOnly(json, so_far, fldname) ==
    LET outer == Subscript(json, Split(fldname, ".")[1])
        inner == IF outer.raised # "" THEN outer
                 ELSE Subscript(outer.val, Split(fldname, ".")[2])
    IN  IF inner.raised = "TypeError"
        THEN Projection("", Put(so_far.ret, Replace(fldname, ".", "_"), VNone),
                        so_far.unknown)
        ELSE Projection(inner.raised,
                        Put(so_far.ret, Replace(fldname, ".", "_"), inner.val),
                        so_far.unknown)

\* '.' in fldname: the embedded field, None when the lookup raises TypeError
\* or KeyError, stored under the name with '_' for '.'.
DottedField(json, so_far, fldname) ==
    LET outer == Subscript(json, Split(fldname, ".")[1])
        inner == IF outer.raised # "" THEN outer
                 ELSE Subscript(outer.val, Split(fldname, ".")[2])
    IN  IF inner.raised \in {"TypeError", "KeyError"}
        THEN Projection("", Put(so_far.ret, Replace(fldname, ".", "_"), VNone),
                        so_far.unknown)
        ELSE Projection(inner.raised,
                        Put(so_far.ret, Replace(fldname, ".", "_"), inner.val),
                        so_far.unknown)

\* SimpleField that lets the KeyError of an absent field escape.
SimpleField_Raises(json, so_far, fldname) ==
    LET found == Subscript(json, fldname)
    IN  IF found.raised # ""
        THEN Projection(found.raised, so_far.ret, so_far.unknown)
        ELSE IF Lower(fldname) = "private"
        THEN Projection("",
                 Put(so_far.ret, fldname,
                     VStr(IF Truthy(found.val) THEN "private" ELSE "public")),
                 so_far.unknown)
        ELSE Projection("", Put(so_far.ret, fldname, found.val),
                        so_far.unknown)

\* SimpleField that keeps the first unknown name: the marker is assigned
\* only while it does not exist.
SimpleField_KeepsFirstUnknown(json, so_far, fldname) ==
    LET found == Subscript(json, fldname)
    IN  IF found.raised = "KeyError"
        THEN Projection("", so_far.ret,
                        IF so_far.unknown = "<unset>" THEN fldname
                        ELSE so_far.unknown)
        ELSE IF found.raised # ""
        THEN Projection(found.raised, so_far.ret, so_far.unknown)
        ELSE IF Lower(fldname) = "private"
        THEN Projection("",
                 Put(so_far.ret, fldname,
                     VStr(IF Truthy(found.val) THEN "private" ELSE "public")),
                 so_far.unknown)
        ELSE Projection("", Put(so_far.ret, fldname, found.val),
                        so_far.unknown)

\* SimpleField that compares the name with 'private' as it is written.
SimpleField_PrivateAsWritten(json, so_far, fldname) ==
    LET found == Subscript(json, fldname)
    IN  IF found.raised = "KeyError"
        THEN Projection("", so_far.ret, fldname)
        ELSE IF found.raised # ""
        THEN Projection(found.raised, so_far.ret, so_far.unknown)
        ELSE IF fldname = "private"
        THEN Projection("",
                 Put(so_far.ret, fldname,
                     VStr(IF Truthy(found.val) THEN "private" ELSE "public")),
                 so_far.unknown)
        ELSE Projection("", Put(so_far.ret, fldname, found.val),
                        so_far.unknown)

\* SimpleField that lets the KeyError escape once the marker exists.
SimpleField_RaisesWhenMarked(json, so_far, fldname) ==
    LET found == Subscript(json, fldname)
    IN  IF found.raised = "KeyError" /\ so_far.unknown = "<unset>"
        THEN Projection("", so_far.ret, fldname)
        ELSE IF found.raised # ""
        THEN Projection(found.raised, so_far.ret, so_far.unknown)
        ELSE IF Lower(fldname) = "private"
        THEN Projection("",
                 Put(so_far.ret, fldname,
                     VStr(IF Truthy(found.val) THEN "private" ELSE "public")),
                 so_far.unknown)
        ELSE Projection("", Put(so_far.ret, fldname, found.val),
                        so_far.unknown)

\* SimpleField without the special case of 'private'.
SimpleField_KeepsBool(json, so_far, fldname) ==
    LET found == Subscript(json, fldname)
    IN  IF found.raised = "KeyError"
        THEN Projection("", so_far.ret, fldname)
        ELSE Projection(found.raised, Put(so_far.ret, fldname, found.val),
                        so_far.unknown)

\* The simple case: copy a field/value pair, 'private' as 'private' or
\* 'public'; on KeyError only the name is kept, in _settings.
SimpleField(json, so_far, fldname) ==
    LET found == Subscript(json, fldname)
    IN  IF found.raised = "KeyError"
        THEN Projection("", so_far.ret, fldname)
        ELSE IF found.raised # ""
        THEN Projection(found.raised, so_far.ret, so_far.unknown)
        ELSE IF Lower(fldname) = "private"
        THEN Projection("",
                 Put(so_far.ret, fldname,
                     VStr(IF Truthy(found.val) THEN "private" ELSE "public")),
                 so_far.unknown)
        ELSE Projection("", Put(so_far.ret, fldname, found.val),
                        so_far.unknown)

\* `for fldname in fields` of the explicit list.
RECURSIVE ListedFields(_, _, _)
ListedFields(json, so_far, names) ==
    IF names = <<>> \/ so_far.raised # "" THEN so_far
    ELSE ListedFields(json,
             IF Contains(Head(names), ".")
             THEN DottedField(json, so_far, Head(names))
             ELSE SimpleField(json, so_far, Head(names)),
             Tail(names))

Sentinels == {"*", "urls", "nourls"}

\* The default field list with its two names exchanged.
RepoDefaultFields_NameFirst == <<"name", "owner.login">>

RepoDefaultFields == <<"owner.login", "name">>

\* repofields() taking the sentinel mode of the first sentinel token met at
\* any position of the field list.
repofields_SentinelAnywhere(json, names, unknown) ==
    LET flds == IF names = <<>> THEN RepoDefaultFields ELSE names
        found == SelectSeq(flds, LAMBDA f : f \in Sentinels)
    IN  IF found # <<>>
        THEN Projection("", CopyFields(found[1], <<>>, json.d), unknown)
        ELSE ListedFields(json, Projection("", <<>>, unknown), flds)

\* repofields(repo_json, fields) with _settings.unknownfieldname = unknown.
\* A field list of None is written <<>>: `not fields` holds of both.
repofields(json, names, unknown) ==
    LET flds == IF names = <<>> THEN RepoDefaultFields ELSE names
    IN  IF flds[1] \in Sentinels
        THEN Projection("", CopyFields(flds[1], <<>>, json.d), unknown)
        ELSE ListedFields(json, Projection("", <<>>, unknown), flds)

(***************************************************************************)
(* The source objects and field lists the model feeds to repofields().     *)
(***************************************************************************)
\* A key of a source object with each value it may have; <<>> is the key
\* being absent.
Optional(key, values) == {<<>>} \cup { << <<key, v>> >> : v \in values }

\* owner as the API sends it, an object that lacks 'login', and the values
\* that cannot be subscripted with a name: null, a string, a number, a list.
OwnerValues ==
    { VDict(<< <<"login", VStr("bar")>>, <<"url", VStr("u")>> >>),
      VDict(<< <<"url", VStr("u")>> >>),
      VNone, VStr("bar"), VInt("7"),
      [t |-> "list", s |-> "", d |-> <<>>] }

\* The repo of the end-to-end example.
RepoFoo ==
    VDict(<< <<"name", VStr("foo")>>,
             <<"owner", VDict(<< <<"login", VStr("bar")>> >>)>>,
             <<"private", VBool(TRUE)>> >>)

\* The repo of the 'nourls' example, and one with an object inside its
\* embedded object.
RepoLicensed ==
    VDict(<< <<"name", VStr("foo")>>, <<"html_url", VStr("x")>>,
             <<"license", VDict(<< <<"name", VStr("MIT")>>,
                                   <<"url", VStr("y")>> >>)>> >>)

RepoDeep ==
    VDict(<< <<"url", VStr("u")>>,
             <<"license",
               VDict(<< <<"url", VStr("y")>>,
                        <<"spdx", VDict(<< <<"id", VStr("MIT")>>,
                                           <<"url", VStr("z")>> >>)>> >>)>>,
             <<"name", VStr("foo")>> >>)

RepoObjects ==
    { VDict(n \o o \o p \o h) :
          n \in Optional("name", {VStr("foo")}),
          o \in Optional("owner", OwnerValues),
          p \in Optional("private", {VBool(TRUE), VBool(FALSE)}),
          h \in Optional("html_url", {VStr("x")}) }
    \cup { VDict(<< <<"name", VStr("foo")>>, <<"Private", VStr("yes")>> >>),
           VDict(<< <<"Private", VInt("0")>>, <<"private", VNone>> >>),
           VDict(<< <<"Private", VBool(TRUE)>> >>),
           VDict(<< <<"name", VStr("foo")>>, <<"Private", VBool(FALSE)>> >>),
           RepoFoo, RepoLicensed, RepoDeep }

Selectors ==
    {"name", "private", "Private", "owner", "owner.login", "html_url", "*"}

\* Field lists with 'urls' and 'nourls', first and not first.
SentinelLists ==
    { <<"urls">>, <<"nourls">>, <<"urls", "name">>, <<"nourls", "*">>,
      <<"name", "urls">>, <<"name", "nourls">> }

\* The field list of the end-to-end example.
ExampleFields == <<"owner.login", "name", "private">>

\* The field lists of at most MaxFields selectors, and the example's; <<>> is
\* no list at all.
FieldLists ==
    UNION { [1..n -> Selectors] : n \in 0..MaxFields }
    \cup {ExampleFields} \cup SentinelLists

(***************************************************************************)
(* memberfields(): get the fields/values for a member/user.                *)
(***************************************************************************)
MemberDefaultFields == <<"org", "login", "id", "type", "site_admin">>

\* The loop over fields: 'org' is the caller's, any other name is
\* member_json[fldname], whose KeyError is not caught.
RECURSIVE MemberListed(_, _, _, _)
MemberListed(json, so_far, flds, org) ==
    IF flds = <<>> \/ so_far.raised # "" THEN so_far
    ELSE LET fldname == Head(flds)
             found == Subscript(json, fldname)
         IN  MemberListed(json,
                 IF fldname = "org"
                 THEN Returned(Put(so_far.ret, fldname, org))
                 ELSE IF found.raised # "" THEN Raised(found.raised)
                 ELSE Returned(Put(so_far.ret, fldname, found.val)),
                 Tail(flds), org)

memberfields(json, names, org) ==
    MemberListed(json, Returned(<<>>),
                 IF names = <<>> THEN MemberDefaultFields ELSE names, org)

(***************************************************************************)
(* The API behind github_api(): the pages of one collection.  Page 1 is    *)
(* served at the endpoint the call starts with, page k at the URL that     *)
(* page k-1 names as next.                                                 *)
(***************************************************************************)
Call(fn, org, user, team, audit2fa) ==
    [fn |-> fn, org |-> org, user |-> user, team |-> team,
     audit2fa |-> audit2fa]

NoCall == Call("", VNone, VNone, VNone, FALSE)

\* reposget(): org, or user when no org is given.
ReposEndpoint(c) ==
    IF Truthy(c.org)
    THEN "https://api.github.com/orgs/" \o c.org.s \o "/repos"
    ELSE "https://api.github.com/users/" \o c.user.s \o "/repos"

\* membersget(): team, or org when no team is given.
MembersEndpoint(c) ==
    IF Truthy(c.team)
    THEN "https://api.github.com/teams/" \o c.team.s \o "/members"
    ELSE "https://api.github.com/orgs/" \o c.org.s \o "/members"
             \o (IF c.audit2fa THEN "?filter=2fa_disabled" ELSE "")

FirstEndpoint(c) ==
    IF c.fn = "reposget" THEN ReposEndpoint(c) ELSE MembersEndpoint(c)

Digit(k) == SubSeq("0123456789", k + 1, k + 1)

\* The URL of page k as the API writes it in its Link headers.
ChainURL(c, k) ==
    (IF c.fn = "reposget"
     THEN "https://api.github.com/organizations/123/repos?page="
     ELSE IF Truthy(c.team)
     THEN "https://api.github.com/teams/" \o c.team.s \o "/members?page="
     ELSE IF c.audit2fa
     THEN "https://api.github.com/organizations/123/members"
              \o "?filter=2fa_disabled&page="
     ELSE "https://api.github.com/organizations/123/members?page=")
    \o Digit(k)

\* The Link header of page k of n: prev, next, last, first.
LinkHeader(c, k, n) ==
    Join((IF k > 1 THEN <<Entry(ChainURL(c, k - 1), "prev", "ok")>> ELSE <<>>)
         \o <<Entry(ChainURL(c, k + 1), "next", "ok"),
              Entry(ChainURL(c, n), "last", "ok")>>
         \o (IF k > 1 THEN <<Entry(ChainURL(c, 1), "first", "ok")>> ELSE <<>>),
         ", ")

\* A response of requests.get(): .ok, the parsed .text, .headers.
HttpResponse(ok, text, headers) ==
    [ok |-> ok, text |-> text, headers |-> headers]

NoResponse == HttpResponse(FALSE, <<>>, <<>>)

\* The rate-limit headers of a response of the API.
RateLimitHeaders ==
    << <<"X-RateLimit-Limit", VStr("60")>>,
       <<"X-RateLimit-Remaining", VStr("59")>> >>

\* The page of the collection that a URL names, 0 if none.
PageAt(c, srv, url) ==
    IF url = FirstEndpoint(c) THEN 1
    ELSE IF \E k \in 2..Len(srv) : ChainURL(c, k) = url
    THEN CHOOSE k \in 2..Len(srv) : ChainURL(c, k) = url
    ELSE 0

\* requests.get(endpoint): the page at that URL, 404 for any other URL.
Serve(c, srv, url) ==
    LET k == PageAt(c, srv, url)
    IN  IF k = 0 THEN NoResponse
        ELSE HttpResponse(srv[k].ok, srv[k].items,
                 (IF srv[k].link
                  THEN << <<"Link", VStr(LinkHeader(c, k, Len(srv)))>> >>
                  ELSE <<>>) \o RateLimitHeaders)

\* github_api(): None when called with no endpoint, else the response of
\* requests.get().
github_api(c, srv, ep) ==
    IF ~Truthy(ep)
    THEN [called |-> FALSE, response |-> NoResponse]
    ELSE [called |-> TRUE, response |-> Serve(c, srv, ep.s)]

\* len(response.content): the body of the model's responses is the two
\* brackets of the array and BytesPerElement bytes for each element.
BytesPerElement == 50

ContentLength(resp) == 2 + BytesPerElement * Len(resp.text)

\* int(text) of a header value: the number written in decimal digits,
\* ValueError for any other text.
RECURSIVE DecimalValue(_)
DecimalValue(text) ==
    IF text = "" THEN 0
    ELSE 10 * DecimalValue(SubSeq(text, 1, Len(text) - 1))
             + (CHOOSE d \in 0..9 : Digit(d) = Char(text, Len(text)))

IsDecimal(text) ==
    /\ text # ""
    /\ \A i \in 1..Len(text) : \E d \in 0..9 : Digit(d) = Char(text, i)

\* The settings without the `except KeyError` of github_api(): a missing
\* rate-limit header leaves what was assigned before it was missed.
SessionTotals_NoExcept(s, resp) ==
    LET counted == [s EXCEPT !.tot_api_calls = @ + 1,
                             !.tot_api_bytes = @ + ContentLength(resp)]
        limit == IF HasKey(resp.headers, "X-RateLimit-Limit")
                 THEN Get(resp.headers, "X-RateLimit-Limit").s ELSE ""
        remaining == IF HasKey(resp.headers, "X-RateLimit-Remaining")
                     THEN Get(resp.headers, "X-RateLimit-Remaining").s ELSE ""
    IN  IF ~HasKey(resp.headers, "X-RateLimit-Limit")
        THEN [raised |-> "KeyError", settings |-> counted]
        ELSE IF ~IsDecimal(limit)
        THEN [raised |-> "ValueError", settings |-> counted]
        ELSE LET limited == [counted EXCEPT
                                 !.last_ratelimit = DecimalValue(limit)]
             IN  IF ~HasKey(resp.headers, "X-RateLimit-Remaining")
                 THEN [raised |-> "KeyError", settings |-> limited]
                 ELSE IF ~IsDecimal(remaining)
                 THEN [raised |-> "ValueError", settings |-> limited]
                 ELSE [raised |-> "",
                       settings |->
                           [limited EXCEPT !.last_remaining =
                                               DecimalValue(remaining)]]

\* github_api() after requests.get(): the session totals are updated, then
\* the two rate-limit values are read from the headers; 999999 for both if
\* either header is missing, ValueError (not caught) if one is no number.
SessionTotals(s, resp) ==
    LET counted == [s EXCEPT !.tot_api_calls = @ + 1,
                             !.tot_api_bytes = @ + ContentLength(resp)]
        limit == IF HasKey(resp.headers, "X-RateLimit-Limit")
                 THEN Get(resp.headers, "X-RateLimit-Limit").s ELSE ""
        remaining == IF HasKey(resp.headers, "X-RateLimit-Remaining")
                     THEN Get(resp.headers, "X-RateLimit-Remaining").s ELSE ""
        missed == [counted EXCEPT !.last_ratelimit = 999999,
                                  !.last_remaining = 999999]
    IN  IF ~HasKey(resp.headers, "X-RateLimit-Limit")
        THEN [raised |-> "", settings |-> missed]
        ELSE IF ~IsDecimal(limit)
        THEN [raised |-> "ValueError", settings |-> counted]
        ELSE LET limited == [counted EXCEPT
                                 !.last_ratelimit = DecimalValue(limit)]
             IN  IF ~HasKey(resp.headers, "X-RateLimit-Remaining")
                 THEN [raised |-> "", settings |-> missed]
                 ELSE IF ~IsDecimal(remaining)
                 THEN [raised |-> "ValueError", settings |-> limited]
                 ELSE [raised |-> "",
                       settings |->
                           [limited EXCEPT !.last_remaining =
                                               DecimalValue(remaining)]]

\* The repos and the members the API has.
RepoBaz ==
    VDict(<< <<"name", VStr("baz")>>,
             <<"owner", VDict(<< <<"login", VStr("bar")>> >>)>> >>)

MemberAnn ==
    VDict(<< <<"login", VStr("ann")>>, <<"id", VInt("1")>>,
             <<"type", VStr("User")>>, <<"site_admin", VBool(FALSE)>> >>)

MemberBob ==
    VDict(<< <<"login", VStr("bob")>>, <<"id", VInt("2")>>,
             <<"type", VStr("User")>>, <<"site_admin", VBool(TRUE)>> >>)

\* The JSON array of one page.
PageItems(fn) ==
    IF fn = "reposget"
    THEN { <<RepoFoo>>, <<RepoFoo, RepoBaz>> }
    ELSE { <<MemberAnn>>, <<MemberAnn, MemberBob>> }

\* A page: a success with its array, or a failure; with or without a Link
\* header that names a next page.
Pages(fn) ==
    { [ok |-> TRUE, items |-> i, link |-> l] :
          i \in PageItems(fn), l \in BOOLEAN }
    \cup { [ok |-> FALSE, items |-> <<>>, link |-> l] : l \in BOOLEAN }

Servers(fn) == UNION { [1..n -> Pages(fn)] : n \in 1..MaxPages }

\* The calls of the model and the field lists they are made with.
Calls ==
    { Call("reposget", VStr("o"), VNone, VNone, FALSE),
      Call("reposget", VNone, VStr("u"), VNone, FALSE),
      Call("membersget", VStr("o"), VNone, VNone, FALSE),
      Call("membersget", VStr("o"), VNone, VStr("7"), FALSE),
      Call("membersget", VNone, VNone, VStr("7"), FALSE),
      Call("membersget", VStr("o"), VNone, VNone, TRUE) }

FetchFields(fn) ==
    IF fn = "reposget"
    THEN { <<>>, <<"name", "private">>, <<"*">> }
    ELSE { <<>>, <<"login", "org">>, <<"login", "email">> }

(***************************************************************************)
(* reposget() / membersget(): the loop over the pages.                     *)
(***************************************************************************)
\* retval and the settings while a page is projected.
Page(exc, recs, unknown) == [raised |-> exc, recs |-> recs, unknown |-> unknown]

\* ProjectRepos with retval.insert(0, ...) in the place of retval.append(...).
RECURSIVE ProjectRepos_Reversed(_, _, _)
ProjectRepos_Reversed(thispage, flds, so_far) ==
    IF thispage = <<>> \/ so_far.raised # "" THEN so_far
    ELSE LET one == repofields(Head(thispage), flds, so_far.unknown)
         IN  ProjectRepos_Reversed(Tail(thispage), flds,
                 IF one.raised # ""
                 THEN Page(one.raised, so_far.recs, one.unknown)
                 ELSE Page("", <<one.ret>> \o so_far.recs, one.unknown))

\* for repo_json in thispage: retval.append(repofields(repo_json, fields))
RECURSIVE ProjectRepos(_, _, _)
ProjectRepos(thispage, flds, so_far) ==
    IF thispage = <<>> \/ so_far.raised # "" THEN so_far
    ELSE LET one == repofields(Head(thispage), flds, so_far.unknown)
         IN  ProjectRepos(Tail(thispage), flds,
                 IF one.raised # ""
                 THEN Page(one.raised, so_far.recs, one.unknown)
                 ELSE Page("", Append(so_far.recs, one.ret), one.unknown))

\* for member_json in thispage:
\*     retval.append(memberfields(member_json, fields, org))
RECURSIVE ProjectMembers(_, _, _, _)
ProjectMembers(thispage, flds, org, so_far) ==
    IF thispage = <<>> \/ so_far.raised # "" THEN so_far
    ELSE LET one == memberfields(Head(thispage), flds, org)
         IN  ProjectMembers(Tail(thispage), flds, org,
                 IF one.raised # ""
                 THEN Page(one.raised, so_far.recs, so_far.unknown)
                 ELSE Page("", Append(so_far.recs, one.ret), so_far.unknown))

IdlePagination == link_header = NoInput /\ pagelinks = NotCalled

IdleProjection ==
    /\ repo_json = VNone
    /\ fields = <<>>
    /\ records = <<>>
    /\ unknownfieldname = "<unset>"

(***************************************************************************)
(* The state outside the operation a specification exercises.              *)
(***************************************************************************)
\* _settings as the class body leaves it: no GitHub authentication, the
\* session totals and the last rate limit at 0.
Settings(username, accesstoken) ==
    [username |-> username, accesstoken |-> accesstoken,
     tot_api_calls |-> 0, tot_api_bytes |-> 0,
     last_ratelimit |-> 0, last_remaining |-> 0]

DefaultSettings == Settings(VStr(""), VStr(""))

\* auth_user(): the tuple for basic authentication, None if no username is
\* set.
auth_user(s) ==
    IF Truthy(s.username)
    THEN [t |-> "tuple", s |-> "", d |-> <<s.username, s.accesstoken>>]
    ELSE VNone

\* The INI file when it does not exist.
NoFile == [exists |-> FALSE, sections |-> <<>>]

IdleAuth ==
    /\ inifile = NoFile
    /\ settings = DefaultSettings
    /\ http_auth = <<>>

IdleSession == session = <<>>

\* No command line: the functions are called as a library.
NoCli ==
    [command |-> "", org |-> "", user |-> "", team |-> "",
     audit2fa |-> FALSE, fields |-> "", filename |-> "",
     console |-> <<>>, file |-> [kind |-> "", rows |-> <<>>]]

IdleCli == cli = NoCli

IdleFetch ==
    /\ call = NoCall
    /\ server = <<>>
    /\ endpoint = VNone
    /\ response = NoResponse
    /\ api_calls = <<>>

(***************************************************************************)
(* SpecPagination: one call of pagination() on any input of LinkInputs.    *)
(***************************************************************************)
InitPagination ==
    /\ link_header \in LinkInputs
    /\ pagelinks = NotCalled
    /\ IdleProjection
    /\ IdleFetch
    /\ IdleAuth
    /\ IdleSession
    /\ raised = ""
    /\ IdleCli
    /\ pc = "pagination"

CallPagination ==
    /\ pc = "pagination"
    /\ \E done \in {pagination(link_header.arg)} :
           /\ pagelinks' = done
           /\ raised' = done.raised
    /\ pc' = "pagination_done"
    /\ UNCHANGED <<cli, http_auth, inifile, settings, session,
                   link_header, repo_json, fields, records, unknownfieldname,
                   call, server, endpoint, response, api_calls>>

SpecPagination == InitPagination /\ [][CallPagination]_vars

(***************************************************************************)
(* SpecProject: one call of repofields() on any object of RepoObjects with *)
(* any field list of FieldLists.                                           *)
(***************************************************************************)
InitProject ==
    /\ repo_json \in RepoObjects
    /\ fields \in FieldLists
    /\ records = <<>>
    /\ unknownfieldname = "<unset>"
    /\ IdlePagination
    /\ IdleFetch
    /\ IdleAuth
    /\ IdleSession
    /\ raised = ""
    /\ IdleCli
    /\ pc = "repofields"

CallRepofields ==
    /\ pc = "repofields"
    /\ \E done \in {repofields(repo_json, fields, unknownfieldname)} :
           /\ raised' = done.raised
           /\ records' = IF done.raised = "" THEN Append(records, done.ret)
                         ELSE records
           /\ unknownfieldname' = done.unknown
    /\ pc' = "repofields_done"
    /\ UNCHANGED <<cli, http_auth, inifile, settings, session,
                   link_header, pagelinks, repo_json, fields, call, server,
                   endpoint, response, api_calls>>

SpecProject == InitProject /\ [][CallRepofields]_vars

(***************************************************************************)
(* SpecFetch: one call of reposget() or membersget() against an API that   *)
(* serves up to MaxPages pages.                                            *)
(***************************************************************************)
InitFetch ==
    /\ call \in Calls
    /\ server \in Servers(call.fn)
    /\ fields \in FetchFields(call.fn)
    /\ endpoint = VNone
    /\ response = NoResponse
    /\ api_calls = <<>>
    /\ records = <<>>
    /\ repo_json = VNone
    /\ unknownfieldname = "<unset>"
    /\ IdlePagination
    /\ IdleAuth
    /\ IdleSession
    /\ raised = ""
    /\ IdleCli
    /\ pc = call.fn

\* The statements of reposget() before its loop.
reposget ==
    /\ pc = "reposget"
    /\ endpoint' = VStr(ReposEndpoint(call))
    /\ records' = <<>>
    /\ pc' = "reposget_loop"
    /\ UNCHANGED <<cli, http_auth, inifile, settings, session,
                   link_header, pagelinks, repo_json, fields,
                   unknownfieldname, raised, call, server, response,
                   api_calls>>

\* The statements of membersget() before its loop.
membersget ==
    /\ pc = "membersget"
    /\ endpoint' = VStr(MembersEndpoint(call))
    /\ records' = <<>>
    /\ pc' = "membersget_loop"
    /\ UNCHANGED <<cli, http_auth, inifile, settings, session,
                   link_header, pagelinks, repo_json, fields,
                   unknownfieldname, raised, call, server, response,
                   api_calls>>

\* LoopPass that leaves the loop on a failed response, not on an empty
\* nextURL.
LoopPass_BreakWhenNotOk(loop, got, page) ==
    \E links \in {pagination(Response(got.headers))} :
        /\ api_calls' = Append(api_calls, endpoint.s)
        /\ http_auth' = Append(http_auth, auth_user(settings))
        /\ settings' = SessionTotals(settings, got).settings
        /\ response' = got
        /\ records' = page.recs
        /\ unknownfieldname' = page.unknown
        /\ pagelinks' = links
        /\ endpoint' = Get(links.ret, "nextURL")
        /\ pc' = IF got.ok THEN loop ELSE "returned"
        /\ UNCHANGED <<cli, raised, inifile, session, link_header,
                       repo_json, fields, call, server>>

\* response.ok when github_api() returned None.
NoneHasNoOk ==
    /\ raised' = "AttributeError"
    /\ pc' = "raised"
    /\ UNCHANGED <<cli, http_auth, inifile, settings, session,
                   link_header, pagelinks, repo_json, fields, records,
                   unknownfieldname, call, server, endpoint, response,
                   api_calls>>

\* LoopPass that raises for a failed response, as response.raise_for_status()
\* would.
LoopPass_RaisesOnFailure(loop, got, page) ==
    \E links \in {pagination(Response(got.headers))} :
        /\ api_calls' = Append(api_calls, endpoint.s)
        /\ http_auth' = Append(http_auth, auth_user(settings))
        /\ settings' = SessionTotals(settings, got).settings
        /\ response' = got
        /\ records' = page.recs
        /\ unknownfieldname' = page.unknown
        /\ IF page.raised # "" \/ ~got.ok
           THEN /\ raised' = IF got.ok THEN page.raised ELSE "HTTPError"
                /\ pc' = "raised"
                /\ UNCHANGED <<pagelinks, endpoint>>
           ELSE /\ pagelinks' = links
                /\ endpoint' = Get(links.ret, "nextURL")
                /\ pc' = IF Truthy(Get(links.ret, "nextURL"))
                         THEN loop ELSE "returned"
                /\ UNCHANGED raised
        /\ UNCHANGED <<cli, inifile, session, link_header, repo_json,
                       fields, call, server>>

\* LoopPass with a page bound of its own: the loop is left after one page,
\* whatever the response names as next.
LoopPass_PageBound(loop, got, page) ==
    \E links \in {pagination(Response(got.headers))} :
        /\ api_calls' = Append(api_calls, endpoint.s)
        /\ http_auth' = Append(http_auth, auth_user(settings))
        /\ settings' = SessionTotals(settings, got).settings
        /\ response' = got
        /\ records' = page.recs
        /\ unknownfieldname' = page.unknown
        /\ IF page.raised # ""
           THEN /\ raised' = page.raised
                /\ pc' = "raised"
                /\ UNCHANGED <<pagelinks, endpoint>>
           ELSE /\ pagelinks' = links
                /\ endpoint' = Get(links.ret, "nextURL")
                /\ pc' = "returned"
                /\ UNCHANGED raised
        /\ UNCHANGED <<cli, inifile, session, link_header, repo_json,
                       fields, call, server>>

\* One pass of the loop, given the response and the page projected from it:
\* parse the links, go on with nextURL or break and return.
LoopPass(loop, got, page) ==
    \E links \in {pagination(Response(got.headers))} :
        /\ api_calls' = Append(api_calls, endpoint.s)
        /\ http_auth' = Append(http_auth, auth_user(settings))
        /\ settings' = SessionTotals(settings, got).settings
        /\ response' = got
        /\ records' = page.recs
        /\ unknownfieldname' = page.unknown
        /\ IF page.raised # ""
           THEN /\ raised' = page.raised
                /\ pc' = "raised"
                /\ UNCHANGED <<pagelinks, endpoint>>
           ELSE IF links.raised # ""
           THEN /\ raised' = links.raised
                /\ pc' = "raised"
                /\ pagelinks' = links
                /\ UNCHANGED endpoint
           ELSE /\ pagelinks' = links
                /\ endpoint' = Get(links.ret, "nextURL")
                /\ pc' = IF Truthy(Get(links.ret, "nextURL"))
                         THEN loop ELSE "returned"
                /\ UNCHANGED raised
        /\ UNCHANGED <<cli, inifile, session, link_header, repo_json,
                       fields, call, server>>

\* reposget_loop that starts every page with no marker.
reposget_loop_ForgetsMarker ==
    /\ pc = "reposget_loop"
    /\ \E api \in {github_api(call, server, endpoint)} :
       LET got == api.response
           so_far == Page("", records, "<unset>")
       IN  IF ~api.called THEN NoneHasNoOk
           ELSE LoopPass("reposget_loop", got,
                    IF got.ok THEN ProjectRepos(got.text, fields, so_far)
                    ELSE so_far)

\* One pass of the loop of reposget().
reposget_loop ==
    /\ pc = "reposget_loop"
    /\ \E api \in {github_api(call, server, endpoint)} :
       LET got == api.response
           so_far == Page("", records, unknownfieldname)
       IN  IF ~api.called THEN NoneHasNoOk
           ELSE LoopPass("reposget_loop", got,
                    IF got.ok THEN ProjectRepos(got.text, fields, so_far)
                    ELSE so_far)

\* One pass of the loop of membersget().
membersget_loop ==
    /\ pc = "membersget_loop"
    /\ \E api \in {github_api(call, server, endpoint)} :
       LET got == api.response
           so_far == Page("", records, unknownfieldname)
       IN  IF ~api.called THEN NoneHasNoOk
           ELSE LoopPass("membersget_loop", got,
                    IF got.ok
                    THEN ProjectMembers(got.text, fields, call.org, so_far)
                    ELSE so_far)

NextFetch == reposget \/ reposget_loop \/ membersget \/ membersget_loop

SpecFetch == InitFetch /\ [][NextFetch]_vars

\* The call is over: it returned its list, or an exception left it.
Terminated == pc \in {"returned", "raised"}

\* The same call in a process that keeps running: the interpreter executes
\* the next statement of the function as long as there is one.  This is weak
\* fairness of NextFetch, WF_vars(NextFetch), written out with the state
\* predicate that ENABLED <<NextFetch>>_vars equals: every statement of the
\* function has a next state until the call is over.
SpecFetchLive ==
    SpecFetch /\ ([]<>Terminated \/ []<><<NextFetch>>_vars)

(***************************************************************************)
(* SpecSession: up to MaxCalls projections in one process, each of any     *)
(* object with any field list, by repofields() or memberfields().          *)
(***************************************************************************)
\* One projection of the session: the function, its arguments, and what it
\* raised or returned.
Projected(fn, json, flds, org, done) ==
    [fn |-> fn, json |-> json, fields |-> flds, org |-> org,
     raised |-> done.raised, ret |-> done.ret]

SessionRepos ==
    { RepoFoo, RepoLicensed,
      VDict(<< <<"name", VStr("foo")>>, <<"html_url", VStr("x")>> >>),
      VDict(<<>>) }

SessionRepoFields ==
    { <<>>, <<"name", "private">>, <<"private", "html_url">>,
      <<"owner.login", "html_url">>, <<"*">>, <<"urls">>, <<"nourls">> }

SessionMembers == { MemberAnn }

SessionMemberFields == { <<>>, <<"login">>, <<"login", "email">> }

InitSession ==
    /\ session = <<>>
    /\ repo_json = VNone
    /\ fields = <<>>
    /\ records = <<>>
    /\ unknownfieldname = "<unset>"
    /\ raised = ""
    /\ IdleCli
    /\ IdlePagination
    /\ IdleFetch
    /\ IdleAuth
    /\ pc = "session"

\* The caller's two objects with every store into them done in place: the
\* default list put into the caller's list, the URL fields deleted from the
\* embedded objects of the source.
ArgumentsAfter_InPlace(fn, json, flds) ==
    [json |-> IF fn = "repofields" /\ flds # <<>> /\ flds[1] = "nourls"
              THEN VDict([i \in 1..Len(json.d) |->
                             <<json.d[i][1],
                               IF json.d[i][2].t = "dict"
                               THEN VDict(WithoutUrls(json.d[i][2].d))
                               ELSE json.d[i][2]>>])
              ELSE json,
     fields |-> IF flds # <<>> THEN flds
                ELSE IF fn = "repofields" THEN RepoDefaultFields
                ELSE MemberDefaultFields]

\* The caller's two objects after a projection.  `fields = [...]` binds the
\* local name to a new list; values is a new OrderedDict; the 'nourls' case
\* builds a new dictionary from the embedded one.  There is no store into
\* the list or the source object.
ArgumentsAfter(fn, json, flds) == [json |-> json, fields |-> flds]

\* What a projection leaves behind, whichever function made it.
AfterProjection(fn, json, flds, org, done, unknown) ==
    /\ session' = Append(session, Projected(fn, json, flds, org, done))
    /\ repo_json' = ArgumentsAfter(fn, json, flds).json
    /\ fields' = ArgumentsAfter(fn, json, flds).fields
    /\ raised' = done.raised
    /\ records' = IF done.raised = "" THEN Append(records, done.ret)
                  ELSE records
    /\ unknownfieldname' = unknown
    /\ UNCHANGED <<cli, http_auth, inifile, settings, link_header, pagelinks,
                   call, server, endpoint, response, api_calls, pc>>

\* A call of repofields().
SessionRepofields ==
    /\ pc = "session"
    /\ Len(session) < MaxCalls
    /\ \E json \in SessionRepos, flds \in SessionRepoFields :
           \E done \in {repofields(json, flds, unknownfieldname)} :
               AfterProjection("repofields", json, flds, VNone, done,
                               done.unknown)

\* A call of memberfields().
SessionMemberfields ==
    /\ pc = "session"
    /\ Len(session) < MaxCalls
    /\ \E json \in SessionMembers, flds \in SessionMemberFields :
           \E done \in {memberfields(json, flds, VStr("o"))} :
               AfterProjection("memberfields", json, flds, VStr("o"), done,
                               unknownfieldname)

NextSession == SessionRepofields \/ SessionMemberfields

SpecSession == InitSession /\ [][NextSession]_vars

(***************************************************************************)
(* access_token() / auth_config(): the authentication settings.            *)
(***************************************************************************)
\* The INI file with its sections: <<name, options>>, options a dict.
IniFile(sections) == [exists |-> TRUE, sections |-> sections]

\* access_token(): config.read() of a missing file reads nothing;
\* config.get(username, 'PAT') gives the token, None on NoSectionError, and
\* NoOptionError, which is not caught, for a section without PAT.
access_token(ini, username) ==
    IF ~HasKey(ini.sections, username) THEN Value(VNone)
    ELSE IF ~HasKey(Get(ini.sections, username), "PAT")
    THEN Throws("NoOptionError")
    ELSE Value(Get(Get(ini.sections, username), "PAT"))

\* The first step of auth_config(): a username without an accesstoken has
\* its token looked up, unless the username is None.
WithToken(ini, arg) ==
    IF Truthy(arg) /\ HasKey(arg.d, "username")
                   /\ ~HasKey(arg.d, "accesstoken")
    THEN IF Get(arg.d, "username") = VNone
         THEN Value(VDict(Put(arg.d, "accesstoken", VNone)))
         ELSE LET token == access_token(ini, Get(arg.d, "username").s)
              IN  IF token.raised # "" THEN token
                  ELSE Value(VDict(Put(arg.d, "accesstoken", token.val)))
    ELSE Value(arg)

\* auth_config(): the settings after the call, or what it raised.
auth_config(ini, s, arg) ==
    LET looked == WithToken(ini, arg)
        given == looked.val
    IN  IF looked.raised # "" THEN [raised |-> looked.raised, settings |-> s]
        ELSE IF ~Truthy(given) THEN [raised |-> "", settings |-> s]
        ELSE [raised |-> "",
              settings |->
                  [s EXCEPT !.username =
                                IF HasKey(given.d, "username")
                                THEN Get(given.d, "username") ELSE @,
                            !.accesstoken =
                                IF HasKey(given.d, "accesstoken")
                                THEN Get(given.d, "accesstoken") ELSE @]]

\* The INI files of the model: none, one with a token for ann, and one
\* whose section for cat has no PAT.
IniFiles ==
    { NoFile,
      IniFile(<< <<"ann", << <<"PAT", VStr("t1")>> >> >> >>),
      IniFile(<< <<"ann", << <<"PAT", VStr("t1")>> >> >>,
                 <<"cat", << <<"foo", VStr("1")>> >> >> >>) }

\* The arguments of auth_config(): none, and dictionaries of settings.
AuthInputs ==
    { VNone,
      VDict(<< <<"username", VStr("ann")>> >>),
      VDict(<< <<"username", VStr("bob")>> >>),
      VDict(<< <<"username", VStr("cat")>> >>),
      VDict(<< <<"username", VStr("")>> >>),
      VDict(<< <<"username", VNone>> >>),
      VDict(<< <<"username", VStr("bob")>>, <<"accesstoken", VStr("t2")>> >>) }

\* The responses github_api() may get: with both rate-limit headers, with
\* none, with one of the two, and with one that is no number.
AuthResponses ==
    { HttpResponse(TRUE, <<RepoFoo>>, RateLimitHeaders),
      HttpResponse(TRUE, <<>>, <<>>),
      HttpResponse(TRUE, <<>>, <<RateLimitHeaders[1]>>),
      HttpResponse(TRUE, <<>>, <<RateLimitHeaders[2]>>),
      HttpResponse(FALSE, <<>>, <<RateLimitHeaders[1],
                                  <<"X-RateLimit-Remaining", VStr("n/a")>> >>) }

\* The endpoint argument of github_api(): none, or a URL.
AuthEndpoints == { VNone, VStr("https://api.github.com") }

(***************************************************************************)
(* SpecAuth: calls of auth_config() and up to MaxRequests calls of         *)
(* github_api(endpoint, auth=auth_user()), in any order.                   *)
(***************************************************************************)
InitAuth ==
    /\ inifile \in IniFiles
    /\ settings = DefaultSettings
    /\ http_auth = <<>>
    /\ api_calls = <<>>
    /\ call = NoCall
    /\ server = <<>>
    /\ endpoint = VNone
    /\ response = NoResponse
    /\ IdlePagination
    /\ IdleProjection
    /\ IdleSession
    /\ raised = ""
    /\ IdleCli
    /\ pc = "start"

\* auth_config(settings)
AuthConfig ==
    /\ pc # "raised"
    /\ \E arg \in AuthInputs :
           \E done \in {auth_config(inifile, settings, arg)} :
               /\ settings' = done.settings
               /\ raised' = done.raised
               /\ pc' = IF done.raised # "" THEN "raised" ELSE "auth_config"
    /\ UNCHANGED <<cli, http_auth, inifile, session, link_header, pagelinks,
                   repo_json, fields, records, unknownfieldname, call,
                   server, endpoint, response, api_calls>>

\* github_api(endpoint=..., auth=auth_user()).  With no endpoint it returns
\* None at once.  Otherwise the auth argument is passed to requests.get()
\* only if it is true, and the session totals are updated from the response.
GithubApi ==
    /\ pc # "raised"
    /\ Len(api_calls) < MaxRequests
    /\ \E ep \in AuthEndpoints, resp \in AuthResponses :
           /\ endpoint' = ep
           /\ IF ~Truthy(ep)
              THEN /\ response' = NoResponse
                   /\ pc' = "github_api_none"
                   /\ UNCHANGED <<api_calls, http_auth, settings, raised>>
              ELSE \E done \in {SessionTotals(settings, resp)} :
                       /\ api_calls' = Append(api_calls, ep.s)
                       /\ http_auth' = Append(http_auth,
                                              IF Truthy(auth_user(settings))
                                              THEN auth_user(settings)
                                              ELSE VNone)
                       /\ settings' = done.settings
                       /\ raised' = done.raised
                       /\ response' = resp
                       /\ pc' = IF done.raised # "" THEN "raised"
                                ELSE "github_api"
    /\ UNCHANGED <<cli, inifile, session, link_header, pagelinks, repo_json,
                   fields, records, unknownfieldname, call, server>>

NextAuth == AuthConfig \/ GithubApi

SpecAuth == InitAuth /\ [][NextAuth]_vars

(***************************************************************************)
(* The command line: `gitdata repos` and `gitdata members`.                *)
(***************************************************************************)
\* One line of click.echo(): what it is, its text, and for a line of data
\* the Record it shows.
Echo(kind, text, record) == [kind |-> kind, text |-> text, record |-> record]

\* The output file: not written, or its rows.
OutputFile(kind, rows) == [kind |-> kind, rows |-> rows]

NoOutputFile == OutputFile("", <<>>)

\* The options of one command; the console and the file are empty.
Command(command, org, user, team, audit2fa, flds, filename) ==
    [command |-> command, org |-> org, user |-> user, team |-> team,
     audit2fa |-> audit2fa, fields |-> flds, filename |-> filename,
     console |-> <<>>, file |-> NoOutputFile]

\* os.path.splitext(filename)[1]: the text from the last '.' on, '' if the
\* name has no '.' after its first character.
RECURSIVE RFind(_, _, _)
RFind(s, c, i) ==
    IF i = 0 THEN 0
    ELSE IF Char(s, i) = c THEN i
    ELSE RFind(s, c, i - 1)

splitext(filename) ==
    LET dot == RFind(filename, ".", Len(filename))
    IN  IF dot <= 1 THEN "" ELSE SubSeq(filename, dot, Len(filename))

\* for row in listobj: the values of the header's fields, in header order;
\* row[fldname] is a KeyError for a row that lacks the field, and the rows
\* before it are in the file.
RECURSIVE CsvRows(_, _, _)
CsvRows(written, header_row, listobj) ==
    IF listobj = <<>> THEN [raised |-> "", rows |-> written]
    ELSE IF \E i \in 1..Len(header_row) :
                ~HasKey(Head(listobj), header_row[i])
    THEN [raised |-> "KeyError", rows |-> written]
    ELSE CsvRows(Append(written,
                        [i \in 1..Len(header_row) |->
                            Get(Head(listobj), header_row[i])]),
                 header_row, Tail(listobj))

\* write_csv(listobj, filename): the file is opened, then listobj[0] gives
\* the header row (IndexError for an empty list), then the rows follow.
write_csv(listobj) ==
    IF listobj = <<>> THEN [raised |-> "IndexError", rows |-> <<>>]
    ELSE CsvRows(<<Keys(listobj[1])>>, Keys(listobj[1]), listobj)

\* write_json(source, filename): nothing is done for an empty list; else
\* each dictionary is written with sort_keys=True, so by its items and not
\* by their order.
write_json(source) ==
    IF source = <<>> THEN NoOutputFile
    ELSE OutputFile(".json",
             [i \in 1..Len(source) |->
                 {source[i][j] : j \in 1..Len(source[i])}])

\* The -f option of the repos and of the members command.
FieldOptions(command) ==
    IF command = "repos"
    THEN { "", "name/private", "*", "license.name/name" }
    ELSE { "", "login/org", "login/email" }

\* The command lines of the model.
Commands ==
    { Command("repos", "o", "", "", FALSE, f, n) :
          f \in FieldOptions("repos"), n \in {"", "out.csv", "out.json"} }
    \cup { Command("repos", "", "", "", FALSE, "", ""),
           Command("repos", "", "u", "", FALSE, "", "out.txt") }
    \cup { Command("members", "o", "", "", FALSE, f, n) :
               f \in FieldOptions("members"), n \in {"", "out.CSV"} }
    \cup { Command("members", "o", "", "7", FALSE, "", ""),
           Command("members", "", "", "7", FALSE, "", ""),
           Command("members", "o", "", "", TRUE, "login/org", "") }

(***************************************************************************)
(* SpecCli: one run of `gitdata repos` or `gitdata members` against an API *)
(* that serves up to MaxPages pages.                                       *)
(***************************************************************************)
InitCli ==
    /\ cli \in Commands
    /\ server \in Servers(IF cli.command = "repos" THEN "reposget"
                          ELSE "membersget")
    /\ call = NoCall
    /\ fields = <<>>
    /\ endpoint = VNone
    /\ response = NoResponse
    /\ api_calls = <<>>
    /\ records = <<>>
    /\ repo_json = VNone
    /\ unknownfieldname = "<unset>"
    /\ IdlePagination
    /\ IdleAuth
    /\ IdleSession
    /\ raised = ""
    /\ pc = cli.command

\* The command ends with an error message.
CliError(text) ==
    /\ cli' = [cli EXCEPT !.console = Append(@, Echo("error", text, <<>>))]
    /\ pc' = "done"
    /\ UNCHANGED <<call, fields>>

\* The command goes on to reposget() / membersget() with these arguments;
\* the -f option is split at '/', and no option is no field list.
CliFetch(c) ==
    /\ call' = c
    /\ fields' = IF cli.fields = "" THEN <<>> ELSE Split(cli.fields, "/")
    /\ pc' = c.fn
    /\ UNCHANGED cli

\* The output file must be .csv or .json, in any case of the letters.
BadFilename ==
    /\ cli.filename # ""
    /\ Lower(splitext(cli.filename)) \notin {".csv", ".json"}

\* repos(): the checks of the options, then reposdata(), which calls
\* reposget() for the org, or for the user if no org is given.
repos ==
    /\ pc = "repos"
    /\ IF cli.org = "" /\ cli.user = ""
       THEN CliError("ERROR: must specify an org or user")
       ELSE IF BadFilename
       THEN CliError("ERROR: output file must be .CSV or .JSON")
       ELSE IF cli.org # ""
       THEN CliFetch(Call("reposget", VStr(cli.org), VNone, VNone, FALSE))
       ELSE CliFetch(Call("reposget", VNone, VStr(cli.user), VNone, FALSE))
    /\ UNCHANGED <<http_auth, inifile, settings, session, link_header,
                   pagelinks, repo_json, records, unknownfieldname, raised,
                   server, endpoint, response, api_calls>>

\* members(): the checks of the options, then membersdata(), which calls
\* membersget() for the team, without the org, or for the org if no team is
\* given.
members ==
    /\ pc = "members"
    /\ IF cli.org = ""
       THEN CliError("ERROR: must specify an org")
       ELSE IF BadFilename
       THEN CliError("ERROR: output file must be .CSV or .JSON")
       ELSE IF cli.team # ""
       THEN CliFetch(Call("membersget", VNone, VNone, VStr(cli.team), FALSE))
       ELSE CliFetch(Call("membersget", VStr(cli.org), VNone, VNone,
                          cli.audit2fa))
    /\ UNCHANGED <<http_auth, inifile, settings, session, link_header,
                   pagelinks, repo_json, records, unknownfieldname, raised,
                   server, endpoint, response, api_calls>>

\* The lines of data on the console, one for each Record (view 'd', the
\* default).
DataLines(listobj) ==
    [i \in 1..Len(listobj) |-> Echo("data", "", listobj[i])]

\* After the fetch: the data is displayed, then the file is written if a
\* filename is given.  An exception of write_csv() ends the command with
\* the file as far as it was written.
CliOutput ==
    /\ pc = "returned"
    /\ cli.command # ""
    /\ LET shown == cli.console \o DataLines(records)
           written == Echo("written",
                           "Output file written: " \o cli.filename, <<>>)
       IN  IF cli.filename = ""
           THEN /\ cli' = [cli EXCEPT !.console = shown]
                /\ pc' = "written"
                /\ UNCHANGED raised
           ELSE IF Lower(splitext(cli.filename)) = ".json"
           THEN /\ cli' = [cli EXCEPT !.console = Append(shown, written),
                                      !.file = write_json(records)]
                /\ pc' = "written"
                /\ UNCHANGED raised
           ELSE \E csv \in {write_csv(records)} :
                    /\ cli' = [cli EXCEPT
                                  !.console = IF csv.raised = ""
                                              THEN Append(shown, written)
                                              ELSE shown,
                                  !.file = OutputFile(".csv", csv.rows)]
                    /\ raised' = csv.raised
                    /\ pc' = IF csv.raised = "" THEN "written" ELSE "raised"
    /\ UNCHANGED <<http_auth, inifile, settings, session, link_header,
                   pagelinks, repo_json, fields, records, unknownfieldname,
                   call, server, endpoint, response, api_calls>>

\* The last statement of the command: the unknown field name is printed if
\* the attribute exists (AttributeError is caught) and is not empty.
CliWarning ==
    /\ pc = "written"
    /\ cli' = IF unknownfieldname \in {"<unset>", ""} THEN cli
              ELSE [cli EXCEPT !.console =
                        Append(@, Echo("unknown",
                                       "Unknown field name: "
                                           \o unknownfieldname, <<>>))]
    /\ pc' = "done"
    /\ UNCHANGED <<http_auth, inifile, settings, session, link_header,
                   pagelinks, repo_json, fields, records, unknownfieldname,
                   raised, call, server, endpoint, response, api_calls>>

NextCli == repos \/ members \/ NextFetch \/ CliOutput \/ CliWarning

SpecCli == InitCli /\ [][NextCli]_vars

(***************************************************************************)
(* Claims about pagination(), checked under SpecPagination.                *)
(***************************************************************************)
\* The call has been made on a header (a string or a response's Link header).
ParsedHeader ==
    pc = "pagination_done" /\ link_header.kind \in {"str", "response"}

\* The URLs written in the header's entries of one rel type, in order.
URLsOfType(type) ==
    LET e == link_header.entries
        at == {i \in 1..Len(e) : e[i][2] = type}
    IN [i \in at |-> URL(link_header.shape, e[i][1])]

HasEntry(type) == DOMAIN URLsOfType(type) # {}

LastURLOfType(type) ==
    LET u == URLsOfType(type)
    IN u[CHOOSE i \in DOMAIN u : \A j \in DOMAIN u : j <= i]

\* The URLs of the header hold none of the two separators of the format.
SeparatorFree ==
    /\ ~Contains(URL(link_header.shape, ""), ",")
    /\ ~Contains(URL(link_header.shape, ""), ";")

\* A slot as pagination() initializes it: page 0, URL None.
SlotEmpty(ret, type) ==
    /\ Get(ret, type \o "page") = VInt("0")
    /\ Get(ret, type \o "URL") = VNone

AllSlotsEmpty(ret) == \A type \in RelTypes : SlotEmpty(ret, type)

\* C1 as stated: for every well-formed Link header with a rel="next" entry,
\* pagination() returns a nextURL that is the text between the angle
\* brackets of that entry.
C1_NextURLOfAnyWellFormedHeader ==
    (ParsedHeader /\ link_header.form = "ok" /\ HasEntry("next"))
        => /\ pagelinks.raised = ""
           /\ \E i \in DOMAIN URLsOfType("next") :
                  Get(pagelinks.ret, "nextURL") = VStr(URLsOfType("next")[i])

\* C1 as amended: for every well-formed Link header whose URLs contain no
\* ',' and no ';', and which has a rel="next" entry, pagination() returns a
\* nextURL that is the text between the angle brackets of that entry (of the
\* last one, if there are several).
C1_NextURLOfSeparatorFreeHeader ==
    (ParsedHeader /\ link_header.form = "ok" /\ HasEntry("next")
       /\ SeparatorFree)
        => /\ pagelinks.raised = ""
           /\ Get(pagelinks.ret, "nextURL") = VStr(LastURLOfType("next"))

C1_Witness ==
    /\ ParsedHeader /\ link_header.form = "ok" /\ SeparatorFree
    /\ Len(link_header.entries) = 2
    /\ link_header.entries[1][2] = "next"
    /\ link_header.entries[2][2] = "last"
    /\ Get(pagelinks.ret, "nextURL")
           = VStr(URL(link_header.shape, link_header.entries[1][1]))

\* The header has exactly a rel="next" and a rel="last" entry.
OnlyNextAndLast ==
    /\ ParsedHeader /\ link_header.form = "ok"
    /\ Len(link_header.entries) = 2
    /\ {link_header.entries[i][2] : i \in 1..2} = {"next", "last"}

\* The slots a header of a next and a last entry is to produce: each entry's
\* URL, with the text after the URL's last '=' as the page, a string; first
\* and prev as initialized.
NextAndLastFilled ==
    /\ pagelinks.raised = ""
    /\ \A type \in {"next", "last"} :
           /\ Get(pagelinks.ret, type \o "URL") = VStr(LastURLOfType(type))
           /\ Get(pagelinks.ret, type \o "page")
                  = VStr(Last(Split(LastURLOfType(type), "=")))
    /\ SlotEmpty(pagelinks.ret, "first")
    /\ SlotEmpty(pagelinks.ret, "prev")

\* C2 as stated: for a header that has only a rel="next" and a rel="last"
\* entry, the next and last slots hold each entry's URL and its page as a
\* string, and the first and prev slots are empty.
C2_NextAndLastOfAnyHeader == OnlyNextAndLast => NextAndLastFilled

\* C2 as amended: the same, for a header whose URLs contain no ',' and no
\* ';'.  On the specification's example nextpage is "2" and lastpage "5".
C2_NextAndLastOfSeparatorFreeHeader ==
    /\ (OnlyNextAndLast /\ SeparatorFree) => NextAndLastFilled
    /\ (/\ ParsedHeader
        /\ link_header.form = "ok"
        /\ link_header.shape = GitHubShape
        /\ link_header.entries = << <<"2", "next">>, <<"5", "last">> >>)
           => /\ Get(pagelinks.ret, "nextpage") = VStr("2")
              /\ Get(pagelinks.ret, "lastpage") = VStr("5")
              /\ Get(pagelinks.ret, "nextURL") = VStr(
                   "https://api.github.com/organizations/123/repos?page=2")

C2_Witness ==
    /\ ParsedHeader
    /\ link_header.arg = VStr(
         "<https://api.github.com/organizations/123/repos?page=2>; rel=\"next\", "
         \o "<https://api.github.com/organizations/123/repos?page=5>; rel=\"last\"")
    /\ Get(pagelinks.ret, "nextpage") = VStr("2")
    /\ Get(pagelinks.ret, "lastpage") = VStr("5")
    /\ SlotEmpty(pagelinks.ret, "first")

\* The input is absent: None, the empty string, or a response with no Link
\* header.
AbsentInput ==
    /\ pc = "pagination_done"
    /\ \/ link_header.kind \in {"none", "nolink"}
       \/ link_header.arg = VStr("")

C5_NoErrorForAnyHeaderString ==
    (pc = "pagination_done" /\ link_header.kind = "str")
        => /\ pagelinks.raised = ""
           /\ raised = ""
           /\ \A type \in RelTypes :
                  /\ HasKey(pagelinks.ret, type \o "page")
                  /\ HasKey(pagelinks.ret, type \o "URL")

C5_Witness ==
    /\ pc = "pagination_done" /\ link_header.kind = "str"
    /\ link_header.form = "empty" /\ Len(link_header.entries) = 2
    /\ pagelinks.raised = ""
    /\ HasKey(pagelinks.ret, "nextURL")

\* The header is malformed: its entries miss their ';', their quotes or
\* their angle brackets, or are empty.
MalformedHeader ==
    /\ pc = "pagination_done" /\ link_header.kind = "str"
    /\ link_header.form # "ok"

\* C6 as stated: a malformed Link header yields an all-empty LinkSet, so the
\* loop, which stops on an empty nextURL, takes it as 'no further pages'.
C6_MalformedGivesEmptyLinkSet ==
    MalformedHeader
        => /\ AllSlotsEmpty(pagelinks.ret)
           /\ ~Truthy(Get(pagelinks.ret, "nextURL"))

\* C6 as amended: a malformed Link header raises nothing; it yields an
\* all-empty LinkSet, which stops the loop, when its entries are empty or
\* miss the quotes of the rel type; when they miss the ';' or the angle
\* brackets, each entry's slot is filled with text that is not the entry's
\* URL, and a next entry leaves a non-empty nextURL, which the loop follows.
C6_MalformedGivesEmptyOrGarbage ==
    /\ (MalformedHeader /\ link_header.form \in {"empty", "noquotes"})
           => /\ pagelinks.raised = ""
              /\ AllSlotsEmpty(pagelinks.ret)
              /\ ~Truthy(Get(pagelinks.ret, "nextURL"))
    /\ (MalformedHeader /\ link_header.form \in {"nosemicolon", "nobrackets"})
           => /\ pagelinks.raised = ""
              /\ \A type \in RelTypes :
                     HasEntry(type) =>
                         /\ ~SlotEmpty(pagelinks.ret, type)
                         /\ \A i \in DOMAIN URLsOfType(type) :
                                Get(pagelinks.ret, type \o "URL")
                                    # VStr(URLsOfType(type)[i])
              /\ HasEntry("next") => Truthy(Get(pagelinks.ret, "nextURL"))

C6_Witness ==
    /\ MalformedHeader /\ link_header.form = "nosemicolon"
    /\ HasEntry("next")
    /\ Truthy(Get(pagelinks.ret, "nextURL"))

(***************************************************************************)
(* Claims about repofields(), checked under SpecProject.                   *)
(***************************************************************************)
\* repofields() has been called with an explicit field list: one that is
\* given and does not start with '*', 'urls' or 'nourls'.
ProjectedList ==
    /\ pc = "repofields_done"
    /\ fields # <<>>
    /\ fields[1] \notin Sentinels

\* Every selector is a plain name and a key of the source object.
AllPresentSimple ==
    \A i \in 1..Len(fields) :
        ~Contains(fields[i], ".") /\ HasKey(repo_json.d, fields[i])

Distinct(seq) ==
    \A i, j \in 1..Len(seq) : seq[i] = seq[j] => i = j

\* C7 as stated: for a field list of plain names that are all keys of the
\* object, the Record's keys are the field list, in its order, and each
\* value is sourceObject[key].
C7_RecordIsDirectLookup ==
    (ProjectedList /\ AllPresentSimple)
        => /\ raised = ""
           /\ Keys(records[1]) = fields
           /\ \A i \in 1..Len(fields) :
                  Get(records[1], fields[i]) = Get(repo_json.d, fields[i])

\* C7 as amended: for a field list of distinct plain names that are all keys
\* of the object, the Record's keys are the field list, in its order; each
\* value is sourceObject[key], except under a key that is 'private' when
\* lowercased, which holds the string 'private' if sourceObject[key] is true
\* and 'public' if not.
C7_RecordIsLookupButPrivate ==
    (ProjectedList /\ AllPresentSimple /\ Distinct(fields))
        => /\ raised = ""
           /\ Keys(records[1]) = fields
           /\ \A i \in 1..Len(fields) :
                  Get(records[1], fields[i]) =
                      IF fields[i] \in {"private", "Private"}
                      THEN IF Truthy(Get(repo_json.d, fields[i]))
                           THEN VStr("private") ELSE VStr("public")
                      ELSE Get(repo_json.d, fields[i])

C7_Witness ==
    /\ ProjectedList /\ AllPresentSimple
    /\ fields = <<"name", "private">>
    /\ records = << << <<"name", VStr("foo")>>,
                       <<"private", VStr("public")>> >> >>

\* The dotted selectors of the model: the selector, the names on each side
\* of its dot, and its name with '_' for the dot.
DottedSelectors ==
    { [sel |-> "owner.login", parent |-> "owner", child |-> "login",
       key |-> "owner_login"] }

\* sourceObject[a][b] when a is present, an object, and has key b.
Embedded(a, b) ==
    IF /\ HasKey(repo_json.d, a)
       /\ Get(repo_json.d, a).t = "dict"
       /\ HasKey(Get(repo_json.d, a).d, b)
    THEN Get(Get(repo_json.d, a).d, b)
    ELSE VNone

\* C8: a dotted selector a.b of a field list puts under a_b the value
\* sourceObject[a][b] when a is present, is an object and has key b, and null
\* when a is absent, null or no object, or b is absent from a; nothing is
\* raised.
C8_DottedSelector ==
    ProjectedList
        => /\ raised = ""
           /\ \A i \in 1..Len(fields) : \A x \in DottedSelectors :
                  fields[i] = x.sel =>
                      /\ HasKey(records[1], x.key)
                      /\ Get(records[1], x.key) = Embedded(x.parent, x.child)

C8_Witness ==
    /\ ProjectedList
    /\ fields = <<"name", "owner.login">>
    /\ HasKey(repo_json.d, "owner") /\ Get(repo_json.d, "owner") = VStr("bar")
    /\ HasKey(repo_json.d, "name")
    /\ records = << << <<"name", VStr("foo")>>, <<"owner_login", VNone>> >> >>

\* The sequence without the repetitions of its elements.
RECURSIVE FirstOccurrences(_)
FirstOccurrences(seq) ==
    IF seq = <<>> THEN <<>>
    ELSE LET front == FirstOccurrences(SubSeq(seq, 1, Len(seq) - 1))
         IN  IF \E i \in 1..Len(front) : front[i] = Last(seq)
             THEN front
             ELSE Append(front, Last(seq))

\* C9: every selector of an explicit field list, matched or not, gives one
\* key of the Record (its name, with '_' for '.'), and the keys come in the
\* order of the selectors.
C9_OneKeyPerSelector ==
    ProjectedList
        => /\ raised = ""
           /\ Keys(records[1]) = FirstOccurrences(
                  [i \in 1..Len(fields) |->
                      IF Contains(fields[i], ".")
                      THEN CHOOSE k \in {x.key : x \in DottedSelectors} :
                               \E x \in DottedSelectors :
                                   x.sel = fields[i] /\ x.key = k
                      ELSE fields[i]])

(***************************************************************************)
(* Claims about the loop of reposget() / membersget(), checked under       *)
(* SpecFetch.                                                              *)
(***************************************************************************)
\* The first request has been made and its response had no Link header.
FirstResponseWithoutLink ==
    api_calls # <<>> /\ ~server[1].link

\* The Records of the first page: one per element of its array, none if the
\* response is a failure.
FirstPageRecords ==
    IF ~server[1].ok THEN <<>>
    ELSE [i \in 1..Len(server[1].items) |->
             IF call.fn = "reposget"
             THEN repofields(server[1].items[i], fields, "<unset>").ret
             ELSE memberfields(server[1].items[i], fields, call.org).ret]

C10_SameKeysInEveryRecord ==
    (call.fn = "reposget" /\ (fields = <<>> \/ fields[1] \notin Sentinels))
        => \A i \in 1..Len(records) : Keys(records[i]) = Keys(records[1])

\* Selector i is a plain name that is no key of the source object.
UnknownAt(i) ==
    ~Contains(fields[i], ".") /\ ~HasKey(repo_json.d, fields[i])

\* The last unknown plain name of the field list.
LastUnknown ==
    fields[CHOOSE i \in 1..Len(fields) :
               /\ UnknownAt(i)
               /\ \A j \in 1..Len(fields) : UnknownAt(j) => j <= i]

\* C11: when an explicit field list names a plain field that the object
\* lacks, repofields() raises nothing and returns a Record; the marker holds
\* that name (the last such name of the list), and every other selector of
\* the list, before or after it, has its key in the Record.
C11_UnknownFieldIsNotFatal ==
    (ProjectedList /\ \E i \in 1..Len(fields) : UnknownAt(i))
        => /\ raised = ""
           /\ Len(records) = 1
           /\ unknownfieldname = LastUnknown
           /\ \A j \in 1..Len(fields) :
                  ~UnknownAt(j)
                      => HasKey(records[1], Replace(fields[j], ".", "_"))

C11_Witness ==
    /\ ProjectedList
    /\ fields = <<"private", "name">>
    /\ UnknownAt(1) /\ ~UnknownAt(2)
    /\ raised = ""
    /\ unknownfieldname = "private"
    /\ records = << << <<"name", VStr("foo")>> >> >>

(***************************************************************************)
(* Claims about a session of projections, checked under SpecSession.       *)
(***************************************************************************)
\* The plain names that a projection of the session did not find in its
\* object, in the order of its field list; none for a sentinel list and for
\* memberfields().
UnknownsOf(p) ==
    LET flds == IF p.fields = <<>> THEN <<"owner.login", "name">>
                ELSE p.fields
        IsUnknown(name) == ~Contains(name, ".") /\ ~HasKey(p.json.d, name)
    IN  IF p.fn # "repofields" \/ flds[1] \in {"*", "urls", "nourls"}
        THEN <<>>
        ELSE SelectSeq(flds, IsUnknown)

\* The unknown name met last in a log of projections, "<unset>" if none.
RECURSIVE MostRecentUnknown(_)
MostRecentUnknown(log) ==
    IF log = <<>> THEN "<unset>"
    ELSE IF UnknownsOf(Last(log)) # <<>> THEN Last(UnknownsOf(Last(log)))
    ELSE MostRecentUnknown(SubSeq(log, 1, Len(log) - 1))

\* C12: after any sequence of projections the marker holds the unknown plain
\* field name that was met last, and no other; it does not exist while none
\* has been met.
C12_MarkerIsMostRecentUnknown ==
    unknownfieldname = MostRecentUnknown(session)

C12_Witness ==
    /\ Len(session) = 2
    /\ UnknownsOf(session[1]) = <<"private", "html_url">>
    /\ UnknownsOf(session[2]) = <<"private">>
    /\ unknownfieldname = "private"

\* C13: in an explicit field list, a selector that is 'private' in any
\* letter case and names a field of the object is stored, under the selector
\* as written, as the string 'private' when the field is true and 'public'
\* when it is false; and {name: foo, owner: {login: bar}, private: true}
\* with [owner.login, name, private] gives
\* {owner_login: bar, name: foo, private: 'private'}.
C13_PrivateIsAString ==
    ProjectedList
        => /\ raised = ""
           /\ \A i \in 1..Len(fields) :
                  (fields[i] \in {"private", "Private"}
                       /\ HasKey(repo_json.d, fields[i]))
                      => /\ HasKey(records[1], fields[i])
                         /\ Get(repo_json.d, fields[i]) = VBool(TRUE)
                                => Get(records[1], fields[i]) = VStr("private")
                         /\ Get(repo_json.d, fields[i]) = VBool(FALSE)
                                => Get(records[1], fields[i]) = VStr("public")
           /\ (repo_json = RepoFoo /\ fields = ExampleFields)
                  => records = << << <<"owner_login", VStr("bar")>>,
                                     <<"name", VStr("foo")>>,
                                     <<"private", VStr("private")>> >> >>

C13_Witness ==
    /\ ProjectedList
    /\ repo_json = RepoFoo
    /\ fields = ExampleFields
    /\ Get(records[1], "private") = VStr("private")

\* repofields() has been called with a field list that starts with the
\* given sentinel.
ProjectedSentinel(mode) ==
    /\ pc = "repofields_done"
    /\ fields # <<>>
    /\ fields[1] = mode

\* The three last characters of the key are 'url'.
IsUrlItem(item) ==
    /\ Len(item[1]) >= 3
    /\ SubSeq(item[1], Len(item[1]) - 2, Len(item[1])) = "url"

\* C14: with '*' the Record is the source object: every top-level key, in
\* source order, each with its value unchanged; with 'urls' it is the source
\* object's items whose key ends in 'url', in source order, values unchanged.
C14_AllAndUrlsOnly ==
    /\ ProjectedSentinel("*")
           => raised = "" /\ records = <<repo_json.d>>
    /\ ProjectedSentinel("urls")
           => raised = "" /\ records = <<SelectSeq(repo_json.d, IsUrlItem)>>

C14_Witness ==
    /\ ProjectedSentinel("urls")
    /\ repo_json = RepoDeep
    /\ Keys(records[1]) = <<"url">>

NotUrlItem(item) == ~IsUrlItem(item)

\* The item with the url keys of its value removed, if the value is an
\* object; what is inside that object is left as it is.
OneLevelStripped(item) ==
    IF item[2].t = "dict"
    THEN <<item[1], VDict(SelectSeq(item[2].d, NotUrlItem))>>
    ELSE item

\* C15: with 'nourls' the Record holds the source object's items whose key
\* does not end in 'url', in source order; a value that is an object loses
\* its own keys ending in 'url' and nothing below them; and
\* {name: foo, html_url: x, license: {name: MIT, url: y}} gives
\* {name: foo, license: {name: MIT}}.
C15_NoUrls ==
    ProjectedSentinel("nourls")
        => /\ raised = ""
           /\ LET kept == SelectSeq(repo_json.d, NotUrlItem)
              IN  records =
                      << [i \in 1..Len(kept) |-> OneLevelStripped(kept[i])] >>
           /\ repo_json = RepoLicensed
                  => records =
                         << << <<"name", VStr("foo")>>,
                               <<"license",
                                 VDict(<< <<"name", VStr("MIT")>> >>)>> >> >>

C15_Witness ==
    /\ ProjectedSentinel("nourls")
    /\ repo_json = RepoDeep
    /\ records =
           << << <<"license",
                   VDict(<< <<"spdx", VDict(<< <<"id", VStr("MIT")>>,
                                               <<"url", VStr("z")>> >>)>> >>)>>,
                 <<"name", VStr("foo")>> >> >>

\* The projections of the session that memberfields() made and returned
\* from.
MemberRecords ==
    SelectSeq(session,
              LAMBDA p : p.fn = "memberfields" /\ p.raised = "")

\* C16: every Record of a member has 'org' as its first key, with the
\* organization the caller passed, whatever the field list is.
C16_OrgIsAlwaysFirst ==
    \A i \in 1..Len(MemberRecords) :
        /\ MemberRecords[i].ret # <<>>
        /\ MemberRecords[i].ret[1] = <<"org", MemberRecords[i].org>>

\* The projections of the session made with no field list.
DefaultProjections == SelectSeq(session, LAMBDA p : p.fields = <<>>)

\* C17: with no field list, repofields() projects as with
\* [owner.login, name]: the Record's keys are owner_login, name, in that
\* order, for an object that has a name; and memberfields() projects as with
\* [org, login, id, type, site_admin]: the Record's keys are org, login, id,
\* type, site_admin, org first and holding the caller's organization.
C17_DefaultFieldLists ==
    \A i \in 1..Len(DefaultProjections) :
        LET p == DefaultProjections[i]
            repo == repofields(p.json, <<"owner.login", "name">>, "<unset>")
            member == memberfields(p.json,
                          <<"org", "login", "id", "type", "site_admin">>,
                          p.org)
        IN  IF p.fn = "repofields"
            THEN /\ p.raised = "" /\ p.ret = repo.ret
                 /\ HasKey(p.json.d, "name")
                        => Keys(p.ret) = <<"owner_login", "name">>
            ELSE /\ p.raised = member.raised /\ p.ret = member.ret
                 /\ p.raised = ""
                        => /\ Keys(p.ret) = <<"org", "login", "id", "type",
                                              "site_admin">>
                           /\ p.ret[1] = <<"org", p.org>>

C17_Witness ==
    /\ Len(session) = 2
    /\ session[1].fn = "repofields" /\ session[1].fields = <<>>
    /\ Keys(session[1].ret) = <<"owner_login", "name">>
    /\ session[2].fn = "memberfields" /\ session[2].fields = <<>>
    /\ Keys(session[2].ret) = <<"org", "login", "id", "type", "site_admin">>

\* Two projections of the session by the same function with the same
\* arguments.
SameProjection(p, q) ==
    /\ p.fn = q.fn
    /\ p.json = q.json
    /\ p.fields = q.fields
    /\ p.org = q.org

FailedPass == api_calls' # api_calls /\ ~response'.ok

\* C19: a pass of the loop that receives a failure appends no Record, keeps
\* the Records it had, and raises nothing; if the failure has a Link header
\* the loop goes on with the next URL written there (that of the page after
\* the one requested), and if it has none the function returns.
C19_FailedPageIsSkipped ==
    [][FailedPass
           => /\ records' = records
              /\ raised' = "" /\ pc' # "raised"
              /\ IF HasKey(response'.headers, "Link")
                 THEN /\ pc' = pc
                      /\ endpoint' =
                             VStr(ChainURL(call, Len(api_calls') + 1))
                 ELSE /\ pc' = "returned"
                      /\ endpoint' = VNone]_vars

C19_Witness ==
    /\ Len(api_calls) = 2
    /\ ~response.ok
    /\ HasKey(response.headers, "Link")
    /\ pc = "reposget_loop"
    /\ endpoint = VStr(ChainURL(call, 3))
    /\ Len(records) = 2
    /\ raised = ""

(***************************************************************************)
(* Claims about authentication, checked under SpecAuth.                    *)
(***************************************************************************)
\* The settings name a user for whom the INI file has no section (or there
\* is no file), and hold no token.
TokenNotFound ==
    /\ settings.username.t = "str"
    /\ settings.username.s # ""
    /\ ~HasKey(inifile.sections, settings.username.s)
    /\ settings.accesstoken = VNone

\* C20: resolving a user without file or section raises nothing (what is
\* raised comes from a section that exists and has no PAT) and leaves a null
\* token, and a call of the API made in that state passes no credentials to
\* requests.get().
C20_NoTokenNoCredentials ==
    /\ raised # ""
           => \E i \in 1..Len(inifile.sections) :
                  ~HasKey(inifile.sections[i][2], "PAT")
    /\ (pc = "github_api" /\ TokenNotFound) => Last(http_auth) = VNone


(***************************************************************************)
(* A Link entry of another rel type, checked under SpecPagination.         *)
(***************************************************************************)
\* The header parsed has an entry whose rel type is none of the four.
HasOtherRelType ==
    /\ ParsedHeader /\ link_header.form = "ok"
    /\ \E i \in 1..Len(link_header.entries) :
           link_header.entries[i][2] \notin RelTypes

\* The header's text without its entries of another rel type.
HeaderWithoutOthers ==
    Header(link_header.shape,
           SelectSeq(link_header.entries, LAMBDA e : e[2] \in RelTypes),
           link_header.form)

\* C21: a Link entry whose rel type is not first, prev, next or last is
\* ignored: pagination() raises nothing and returns the LinkSet it returns
\* for the header without that entry, nothing added.
C21_OtherRelTypeIsIgnored ==
    HasOtherRelType
        => /\ pagelinks.raised = ""
           /\ pagelinks = pagination(VStr(HeaderWithoutOthers))

\* What does hold: no error, and the four named slots are those of the
\* header without the entry (the entry adds two keys of its own).
C21_FourSlotsUnaffected ==
    HasOtherRelType
        => /\ pagelinks.raised = ""
           /\ \A type \in RelTypes, k \in {"page", "URL"} :
                  Get(pagelinks.ret, type \o k)
                      = Get(pagination(VStr(HeaderWithoutOthers)).ret,
                            type \o k)

C21_AddsTwoKeys ==
    /\ HasOtherRelType
    /\ HasKey(pagelinks.ret, OtherRelType \o "page")
    /\ HasKey(pagelinks.ret, OtherRelType \o "URL")

(***************************************************************************)
(* The page of a slot, checked under SpecPagination.                       *)
(***************************************************************************)
\* The position of the last c in s, 0 if there is none.
RECURSIVE LastIndexOf(_, _, _)
LastIndexOf(s, c, i) ==
    IF i = 0 THEN 0
    ELSE IF Char(s, i) = c THEN i
    ELSE LastIndexOf(s, c, i - 1)

\* The text of s after its last c, all of s if it has none.
AfterLast(s, c) == SubSeq(s, LastIndexOf(s, c, Len(s)) + 1, Len(s))

\* The final segment after the last '=' of the query string of a URL.
FinalSegment(url) == AfterLast(AfterLast(url, "?"), "=")

\* The page number written in the header's last entry of one rel type.
LastPageOfType(type) ==
    LET e == link_header.entries
    IN e[CHOOSE i \in 1..Len(e) :
             /\ e[i][2] = type
             /\ \A j \in 1..Len(e) : e[j][2] = type => j <= i][1]

\* C22: for every parsed Link entry the page stored in the slot is the final
\* segment after the last '=' of the query string of the slot's URL; it is
\* the entry's page number whenever page is the last query parameter.
C22_PageIsFinalSegment ==
    (ParsedHeader /\ link_header.form = "ok")
        => \A type \in RelTypes \cup {OtherRelType} :
               HasEntry(type)
                   => /\ Get(pagelinks.ret, type \o "page")
                             = VStr(FinalSegment(
                                   Get(pagelinks.ret, type \o "URL").s))
                      /\ SeparatorFree
                             => Get(pagelinks.ret, type \o "page")
                                    = VStr(FinalSegment(LastURLOfType(type)))
                      /\ (SeparatorFree /\ link_header.shape[2] = "")
                             => Get(pagelinks.ret, type \o "page")
                                    = VStr(LastPageOfType(type))

C22_Witness ==
    /\ ParsedHeader /\ link_header.form = "ok"
    /\ link_header.shape = <<"h/r?page=", "&per_page=9">>
    /\ link_header.entries = << <<"5", "prev">>, <<"2", "next">> >>
    /\ Get(pagelinks.ret, "nextURL") = VStr("h/r?page=2&per_page=9")
    /\ Get(pagelinks.ret, "nextpage") = VStr("9")
    /\ Get(pagelinks.ret, "prevpage") = VStr("9")

(***************************************************************************)
(* The projection mode, checked under SpecProject.                         *)
(***************************************************************************)
\* repofields() has returned for a field list that is not empty.
ProjectedNonEmpty ==
    /\ pc = "repofields_done" /\ raised = "" /\ fields # <<>>
    /\ Len(records) = 1

\* A sentinel token stands at a position after the first.
LaterSentinel == \E i \in 2..Len(fields) : fields[i] \in Sentinels

\* C28: the first element of the field list alone decides the mode.  If it
\* is '*', 'urls' or 'nourls', the Record is that of the one-element list
\* of the sentinel and the later selectors leave no trace; if it is not, a
\* sentinel token at a later position is an ordinary field name: unknown to
\* the object, it adds no key, and the Record is that of the list without it.
C28_ModeIsDecidedByFirstField ==
    /\ (ProjectedNonEmpty /\ fields[1] \in Sentinels)
           => /\ records[1] = repofields(repo_json, <<fields[1]>>,
                                         "<unset>").ret
              /\ unknownfieldname = "<unset>"
    /\ (ProjectedNonEmpty /\ fields[1] \notin Sentinels /\ LaterSentinel)
           => /\ records[1]
                     = repofields(repo_json,
                                  SelectSeq(fields,
                                            LAMBDA f : f \notin Sentinels),
                                  "<unset>").ret
              /\ \A i \in 2..Len(fields) :
                     fields[i] \in Sentinels
                         => /\ ~HasKey(repo_json.d, fields[i])
                            /\ ~HasKey(records[1], fields[i])
              /\ fields[Len(fields)] \in Sentinels
                     => unknownfieldname = fields[Len(fields)]

C28_Witness ==
    /\ ProjectedNonEmpty
    /\ repo_json = RepoLicensed
    /\ fields = <<"name", "urls">>
    /\ records[1] = << <<"name", VStr("foo")>> >>
    /\ unknownfieldname = "urls"

(***************************************************************************)
(* The order of the fetch loop, checked under SpecFetch.                   *)
(***************************************************************************)
\* The Record of one element of a page.
RecordOf(json) ==
    IF call.fn = "reposget" THEN repofields(json, fields, "<unset>").ret
    ELSE memberfields(json, fields, call.org).ret

\* The Records of one response: one per element of its array, in array
\* order; none if the response is a failure.
RecordsOfResponse(resp) ==
    IF resp.ok THEN [j \in 1..Len(resp.text) |-> RecordOf(resp.text[j])]
    ELSE <<>>

\* The Records of the responses to the first i requests, in request order.
RECURSIVE RecordsOfRequests(_)
RecordsOfRequests(i) ==
    IF i = 0 THEN <<>>
    ELSE RecordsOfRequests(i - 1)
             \o RecordsOfResponse(Serve(call, server, api_calls[i]))

\* The URL that the response to request i names as next, None if it has no
\* Link header.
NextURLAfter(i) ==
    LET k == PageAt(call, server, api_calls[i])
    IN  IF k > 0 /\ server[k].link THEN VStr(ChainURL(call, k + 1))
        ELSE VNone

ChainLength ==
    IF \E k \in 1..Len(server) : ~server[k].link
    THEN CHOOSE k \in 1..Len(server) :
             /\ ~server[k].link
             /\ \A j \in 1..(k - 1) : server[j].link
    ELSE Len(server) + 1

\* The URLs of the chain, in chain order.
ChainURLs ==
    [k \in 1..ChainLength |->
        IF k = 1 THEN FirstEndpoint(call) ELSE ChainURL(call, k)]

\* The requests made so far are the first URLs of the chain, one each, in
\* chain order; the function returns only after all n of them, and the only
\* other end is the KeyError of memberfields() while a page is projected.
RequestsFollowChain ==
    /\ Len(api_calls) <= ChainLength
    /\ api_calls = SubSeq(ChainURLs, 1, Len(api_calls))
    /\ pc = "returned" => api_calls = ChainURLs
    /\ pc = "raised" => (raised = "KeyError" /\ call.fn = "membersget")
    /\ Terminated \/ pc \in {call.fn, call.fn \o "_loop"}

LastProjection == session[Len(session)]

Requested == api_calls' # api_calls

\* The step is a github_api() call with no endpoint.
CalledWithNoEndpoint == pc' = "github_api_none"

MissesRateLimitHeader(resp) ==
    \/ ~HasKey(resp.headers, "X-RateLimit-Limit")
    \/ ~HasKey(resp.headers, "X-RateLimit-Remaining")

\* C26: every github_api() call with an endpoint adds exactly 1 to
\* tot_api_calls and never lowers tot_api_bytes, so after n calls in a row
\* tot_api_calls has grown by n; a response that misses a rate-limit header
\* sets last_ratelimit and last_remaining to 999999, both; and a call with
\* no endpoint returns None and changes no counter.
C26_SessionTotals ==
    /\ [](settings.tot_api_calls = Len(api_calls))
    /\ [][/\ Requested
              => /\ settings'.tot_api_calls = settings.tot_api_calls + 1
                 /\ settings'.tot_api_bytes
                        = settings.tot_api_bytes + ContentLength(response')
                 /\ settings'.tot_api_bytes >= settings.tot_api_bytes
                 /\ MissesRateLimitHeader(response')
                        => /\ settings'.last_ratelimit = 999999
                           /\ settings'.last_remaining = 999999
                           /\ raised' = ""
          /\ CalledWithNoEndpoint
              => /\ settings' = settings
                 /\ api_calls' = api_calls
                 /\ response' = NoResponse]_vars

C26_Witness ==
    /\ pc = "github_api"
    /\ Len(api_calls) = 2
    /\ settings.tot_api_calls = 2
    /\ settings.tot_api_bytes = 2 * 2 + BytesPerElement
    /\ response.headers = <<RateLimitHeaders[1]>>
    /\ settings.last_ratelimit = 999999
    /\ settings.last_remaining = 999999

(***************************************************************************)
(* A members query for a team, checked under SpecFetch.                    *)
(***************************************************************************)
\* membersget() was called with a team.
TeamQuery == call.fn = "membersget" /\ Truthy(call.team)

\* The values org may have: none, and two organizations.
OrgValues == { VNone, VStr("o"), VStr("p") }

\* The member Records of the responses to the first i requests, had the
\* call been made with this org.
RECURSIVE MemberRecordsWithOrg(_, _)
MemberRecordsWithOrg(i, org) ==
    IF i = 0 THEN <<>>
    ELSE LET resp == Serve(call, server, api_calls[i])
         IN  MemberRecordsWithOrg(i - 1, org)
                 \o (IF resp.ok
                     THEN [j \in 1..Len(resp.text) |->
                              memberfields(resp.text[j], fields, org).ret]
                     ELSE <<>>)

\* C25: when a team is specified, org is ignored: the endpoint fetched is
\* that of the team and the member Records returned are those of the same
\* query made with any other org, or with none.
C25_OrgIsIgnoredForATeam ==
    (TeamQuery /\ pc = "returned")
        => /\ api_calls[1]
                  = "https://api.github.com/teams/" \o call.team.s \o "/members"
           /\ \A org \in OrgValues :
                  records = MemberRecordsWithOrg(Len(api_calls), org)

\* What does hold: the endpoint is that of the team whatever org is.
C25_TeamEndpoint ==
    (TeamQuery /\ api_calls # <<>>)
        => api_calls[1]
               = "https://api.github.com/teams/" \o call.team.s \o "/members"

(***************************************************************************)
(* The CSV file, checked under SpecCli.                                    *)
(***************************************************************************)
\* write_csv() has been called on the Records of the fetch.
CsvWritten == cli.file.kind = ".csv"

\* The values of a Record in the order of the first Record's keys.
InFirstKeyOrder(record) ==
    [i \in 1..Len(records[1]) |-> Get(record, records[1][i][1])]

\* C27: write_csv() completes without error for every list of Records a
\* fetch with one field list returns: the file has a header row that is the
\* first Record's keys and then one row for each Record, its values in that
\* key order.
C27_CsvHasHeaderAndOneRowPerRecord ==
    CsvWritten
        => /\ raised = ""
           /\ Len(cli.file.rows) = Len(records) + 1
           /\ cli.file.rows[1] = Keys(records[1])
           /\ \A i \in 1..Len(records) :
                  cli.file.rows[i + 1] = InFirstKeyOrder(records[i])

\* What does hold: the rows that are written are as the claim has them, and
\* the only errors are the IndexError of an empty list and the KeyError of
\* a Record that lacks a key of the first.
C27_RowsWrittenAreInKeyOrder ==
    CsvWritten
        => /\ raised \in {"", "IndexError", "KeyError"}
           /\ (raised = "IndexError") = (records = <<>>)
           /\ records # <<>>
                  => /\ cli.file.rows[1] = Keys(records[1])
                     /\ \A i \in 2..Len(cli.file.rows) :
                            cli.file.rows[i] = InFirstKeyOrder(records[i - 1])
           /\ raised = "" => Len(cli.file.rows) = Len(records) + 1

(***************************************************************************)
(* The unknown-field marker over one command, checked under SpecCli.       *)
(***************************************************************************)
\* The plain names of the field list that an object of page k lacks: the
\* names repofields() stores in the marker.  None for a failed page, for a
\* page the API does not have, for a sentinel list and for the members
\* command.
UnknownNamesOn(k) ==
    LET flds == IF fields = <<>> THEN RepoDefaultFields ELSE fields
    IN  IF \/ call.fn # "reposget"
           \/ flds[1] \in Sentinels
           \/ k \notin DOMAIN server
        THEN {}
        ELSE IF ~server[k].ok THEN {}
        ELSE { flds[i] : i \in { n \in 1..Len(flds) :
                   /\ ~Contains(flds[n], ".")
                   /\ \E m \in 1..Len(server[k].items) :
                          ~HasKey(server[k].items[m].d, flds[n]) } }

\* The lines of the console that are the unknown-field warning.
WarningLines == { i \in 1..Len(cli.console) : cli.console[i].kind = "unknown" }

MarkerOfCommand ==
    /\ unknownfieldname # "<unset>"
           => \E k \in 1..Len(api_calls) : unknownfieldname \in UnknownNamesOn(k)
    /\ (raised = "" /\ \E k \in 1..Len(api_calls) : UnknownNamesOn(k) # {})
           => unknownfieldname # "<unset>"
    /\ \A i \in WarningLines :
           /\ i = Len(cli.console)
           /\ pc = "done"
           /\ cli.console[i].text = "Unknown field name: " \o unknownfieldname
    /\ pc = "done"
           => (WarningLines # {}) = (unknownfieldname \notin {"<unset>", ""})

MarkerStep ==
    /\ unknownfieldname # "<unset>" => unknownfieldname' # "<unset>"
    /\ (\/ api_calls' = api_calls
        \/ UnknownNamesOn(Len(api_calls) + 1) = {})
           => unknownfieldname' = unknownfieldname
    /\ pc \in {"written", "done"}
           => /\ api_calls' = api_calls
              /\ records' = records
              /\ cli'.file = cli.file
    /\ Len(cli'.console) > Len(cli.console)
       /\ cli'.console[Len(cli'.console)].kind = "unknown"
           => pc = "written" /\ pc' = "done"

\* C30: the marker does not exist until a request of the command has met a
\* plain field name that an object lacks, and only such a name sets it (no
\* dotted selector, no sentinel list, no member projection); once it exists
\* no step removes it, and a page with no unknown name leaves it as it is;
\* the warning is the last line of the console, printed by the step that
\* ends the command, after every request and after the output file.
C30_MarkerIsSetOnceAndWarnedLast == []MarkerOfCommand /\ [][MarkerStep]_vars

\* Page 1 has a repo without 'private', page 2 has none: the marker set on
\* page 1 is still there after page 2 and is warned of after the file.
C30_Witness ==
    /\ pc = "done"
    /\ cli.command = "repos" /\ cli.fields = "name/private"
    /\ cli.filename = "out.json"
    /\ Len(server) = 2 /\ Len(api_calls) = 2
    /\ UnknownNamesOn(1) = {"private"} /\ UnknownNamesOn(2) = {}
    /\ unknownfieldname = "private"
    /\ Len(cli.console) = 5
    /\ cli.console[4].kind = "written"
    /\ cli.console[5] = Echo("unknown", "Unknown field name: private", <<>>)

\* The members command and a list of dotted selectors end with no marker and
\* no warning, whatever the pages hold.
C30_NoMarkerForMembersAndDotted ==
    (cli.command = "members" \/ cli.fields = "license.name/name")
        => unknownfieldname = "<unset>" /\ WarningLines = {}
====
